---------------------------- MODULE Spec2Model ----------------------------
(***************************************************************************)
(* State-machine model of the FaceAPI orchestrator of fast-face-detection  *)
(* (src/src/core/face-api.ts), its two adapters (FaceDetector in the same  *)
(* file, LandmarkDetector in src/src/core/landmark-detector.ts, both over  *)
(* BaseDetector in src/src/core/base-detector.ts), the validation service  *)
(* and the image utilities.                                                *)
(*                                                                         *)
(* The async methods are cut at their await points: a call in flight is    *)
(* the record `call`, whose pc is the await it is suspended at.  The       *)
(* external models (createDetector, estimateFaces) are the environment:    *)
(* what they return or throw is drawn from small sets.                     *)
(*                                                                         *)
(* Numbers: JavaScript numbers that may be fractional (coordinates,        *)
(* scores, thresholds, scale factors) are exact rationals [n, d].          *)
(* An optional field is <<>> when absent and <<v>> when it holds v.        *)
(***************************************************************************)
EXTENDS Integers, Sequences, FiniteSets, TLC

(***************************************************************************)
(* Bounds of the model                                                     *)
(***************************************************************************)
\* longest list of faces the face model returns in one inference
MaxDetections == 3
\* longest list of faces the landmark model returns in one inference
MaxLandmarkSets == 2
\* number of FaceAPI.dispose() calls followed on one instance
MaxDisposeCalls == 3

(***************************************************************************)
(* Optional values                                                         *)
(***************************************************************************)
None == <<>>

Some(v) == <<v>>

IsSome(o) == o /= <<>>

Get(o) == o[1]

\* JavaScript a ?? b on an optional a
Coalesce(a, b) == IF IsSome(a) THEN a ELSE b

(***************************************************************************)
(* Exact rational arithmetic for JavaScript numbers                        *)
(***************************************************************************)
Abs(i) == IF i < 0 THEN -i ELSE i

RECURSIVE GCD(_, _)
GCD(a, b) == IF b = 0 THEN a ELSE GCD(b, a % b)

Rat(n, d) ==
  LET g == GCD(Abs(n), Abs(d))
      s == IF d < 0 THEN -1 ELSE 1
  IN  [n |-> (s * n) \div g, d |-> (s * d) \div g]

Int2Rat(i) == [n |-> i, d |-> 1]

One == Int2Rat(1)

RAdd(a, b) == Rat(a.n * b.d + b.n * a.d, a.d * b.d)

RSub(a, b) == Rat(a.n * b.d - b.n * a.d, a.d * b.d)

RMul(a, b) == Rat(a.n * b.n, a.d * b.d)

RDiv(a, b) == Rat(a.n * b.d, a.d * b.n)

RLeq(a, b) == a.n * b.d <= b.n * a.d

RLess(a, b) == a.n * b.d < b.n * a.d

RMax(a, b) == IF RLeq(a, b) THEN b ELSE a

RMin(a, b) == IF RLeq(a, b) THEN a ELSE b

\* rounding towards minus infinity instead
MathRound_Floor(a) == a.n \div a.d

\* Math.round: nearest integer, halves towards +infinity
MathRound(a) == (2 * a.n + a.d) \div (2 * a.d)

(***************************************************************************)
(* Error codes (enum ErrorCode) and error values                           *)
(*                                                                         *)
(* An error is the sequence of codes along its originalError chain, the    *)
(* outermost first; an error that is not a FaceDetectionError (a plain     *)
(* Error thrown by the external library) has the code "NativeError".       *)
(***************************************************************************)
UNKNOWN_ERROR == "UNKNOWN_ERROR"

INVALID_INPUT == "INVALID_INPUT"

MODEL_LOAD_FAILED == "MODEL_LOAD_FAILED"

DETECTION_FAILED == "DETECTION_FAILED"

RESOURCE_DISPOSED == "RESOURCE_DISPOSED"

NativeError == <<"NativeError">>

\* new FaceDetectionError(message): details?.code ?? UNKNOWN_ERROR, no cause
FaceDetectionError(details) == <<Coalesce(details, Some(UNKNOWN_ERROR))[1]>>

\* new FaceDetectionError(message, {code, originalError})
FaceDetectionErrorWithCause(code, cause) == <<code>> \o cause

(***************************************************************************)
(* DetectionOptions                                                        *)
(***************************************************************************)
OptionFields ==
  {"scoreThreshold", "maxFaces", "enableTracking", "environment",
   "runtime", "downscaleWidthThreshold"}

\* the object {} : every field absent
EmptyOptions == [f \in OptionFields |-> None]

\* the object {f: v}
Opt1(f, v) == [EmptyOptions EXCEPT ![f] = Some(v)]

\* JavaScript {...a, ...b}
Spread(a, b) == [f \in OptionFields |-> IF IsSome(b[f]) THEN b[f] ELSE a[f]]

\* ConfigurationService.createDefaultOptions(environment)
createDefaultOptions(environment) ==
  [EmptyOptions EXCEPT !.environment = Some(environment),
                       !.scoreThreshold = Some(Rat(1, 2)),
                       !.maxFaces = Some(10),
                       !.enableTracking = Some(TRUE)]

\* ValidationService.validateOptions: TRUE when it returns, FALSE when it throws
validateOptions(options) ==
  /\ ~ (IsSome(options.scoreThreshold)
        /\ (RLess(Get(options.scoreThreshold), Int2Rat(0))
            \/ RLess(One, Get(options.scoreThreshold))))
  /\ ~ (IsSome(options.maxFaces) /\ Get(options.maxFaces) < 1)


(***************************************************************************)
(* The adapters: BaseDetector, FaceDetector, LandmarkDetector              *)
(***************************************************************************)
\* mapConfigToTfConfig: the configuration the face model is created with
mapConfigToTfConfig(config) ==
  [runtime |-> "tfjs",
   modelType |-> "full",
   scoreThreshold |-> IF IsSome(config.scoreThreshold)
                      THEN Get(config.scoreThreshold) ELSE Rat(1, 2),
   maxFaces |-> IF IsSome(config.maxFaces) THEN Get(config.maxFaces) ELSE 10]

\* BaseDetector constructor: options || {}, environment defaults to browser
BaseDetectorNew(options) ==
  [isDisposed |-> FALSE,
   environment |-> IF IsSome(options.environment)
                   THEN Get(options.environment) ELSE "browser",
   options |-> options]

\* new FaceDetector(options): config aliases options, no model yet
FaceDetectorNew(options) ==
  LET base == BaseDetectorNew(options)
  IN  [isDisposed |-> base.isDisposed,
       environment |-> base.environment,
       options |-> base.options,
       config |-> base.options,
       detector |-> None]

\* new LandmarkDetector(options): maxFaces: options?.maxFaces || 1
LandmarkDetectorNew(options) ==
  LET base == BaseDetectorNew(options)
  IN  [isDisposed |-> base.isDisposed,
       environment |-> base.environment,
       options |-> base.options,
       config |-> [runtime |-> "tfjs",
                   refineLandmarks |-> TRUE,
                   maxFaces |-> IF IsSome(options.maxFaces) /\ Get(options.maxFaces) /= 0
                                THEN Get(options.maxFaces) ELSE 1,
                   staticImageMode |-> FALSE,
                   flipHorizontal |-> FALSE,
                   scoreThreshold |-> None],
       detector |-> None]

\* the test taking every update for a change
optionsChanged_Always(d, options) == TRUE

\* BaseDetector.updateOptions, the test that decides optionsChanged
optionsChanged(d, options) ==
  \/ IsSome(options.scoreThreshold) /\ d.options.scoreThreshold /= options.scoreThreshold
  \/ IsSome(options.maxFaces) /\ d.options.maxFaces /= options.maxFaces
  \/ IsSome(options.enableTracking) /\ d.options.enableTracking /= options.enableTracking
  \/ IsSome(options.environment) /\ d.environment /= Get(options.environment)

\* BaseDetector.updateOptions up to the onOptionsUpdated hook: environment
\* is taken over when it differs, options are merged when anything changed
BaseUpdateOptions(d, options) ==
  LET env == IF IsSome(options.environment) /\ d.environment /= Get(options.environment)
             THEN Get(options.environment) ELSE d.environment
  IN  IF optionsChanged(d, options)
      THEN [d EXCEPT !.environment = env, !.options = Spread(d.options, options)]
      ELSE d

\* FaceDetector.updateOptions: BaseDetector.updateOptions with
\* FaceDetector.onOptionsUpdated (config = options, cached model dropped)
FaceDetectorUpdateOptions(d, options) ==
  LET b == BaseUpdateOptions(d, options)
  IN  IF optionsChanged(d, options)
      THEN [b EXCEPT !.config = b.options, !.detector = None]
      ELSE b

\* LandmarkDetector.updateOptions: BaseDetector.updateOptions with
\* LandmarkDetector.onOptionsUpdated (config fields copied, model dropped)
LandmarkDetectorUpdateOptions(d, options) ==
  LET b == BaseUpdateOptions(d, options)
      o == b.options
      cfg == [d.config EXCEPT
                !.maxFaces = IF IsSome(o.maxFaces) THEN Get(o.maxFaces) ELSE @,
                !.scoreThreshold = IF IsSome(o.scoreThreshold) THEN o.scoreThreshold ELSE @,
                !.staticImageMode = IF IsSome(o.enableTracking) THEN ~ Get(o.enableTracking) ELSE @,
                !.runtime = IF IsSome(o.runtime) THEN Get(o.runtime) ELSE @]
  IN  IF optionsChanged(d, options)
      THEN [b EXCEPT !.config = cfg, !.detector = None]
      ELSE b

\* BaseDetector.dispose with onDispose: the model, if any, is released and
\* dropped, then the adapter is marked disposed; a disposed adapter is left alone
DetectorDispose(d) ==
  IF d.isDisposed THEN d ELSE [d EXCEPT !.detector = None, !.isDisposed = TRUE]

(***************************************************************************)
(* FaceAPI construction                                                    *)
(***************************************************************************)
\* the downscale threshold a FaceAPI starts with when none is given
DefaultDownscaleWidthThreshold == 640

\* FaceAPI constructor, the options it keeps: options || defaults, then
\* downscaleWidthThreshold ?? 640
FaceAPIOptions(optionsArg) ==
  LET o == IF IsSome(optionsArg) THEN Get(optionsArg) ELSE createDefaultOptions("browser")
  IN  [o EXCEPT !.downscaleWidthThreshold =
                   Coalesce(o.downscaleWidthThreshold, Some(DefaultDownscaleWidthThreshold))]

(***************************************************************************)
(* Media inputs and the image utilities (ImageUtils)                       *)
(***************************************************************************)
\* an input is [kind, width, height]; width and height are the pixel size
\* elementToCanvas reads (videoWidth and videoHeight for a video)
MediaInput(kind, width, height) == [kind |-> kind, width |-> width, height |-> height]

\* what callers pass as input: null, a plain object, and media of several sizes
InputPool ==
  {MediaInput("null", 0, 0),
   MediaInput("object", 0, 0),
   MediaInput("image", 1280, 720),
   MediaInput("video", 960, 540),
   MediaInput("canvas", 640, 480),
   MediaInput("nodeCanvas", 1280, 720)}

\* input instanceof HTMLCanvasElement || HTMLImageElement || HTMLVideoElement
isHtmlInput(input) == input.kind \in {"image", "video", "canvas"}

\* ValidationService.validateInput: None when it returns, the error it throws otherwise
validateInput(input) ==
  IF input.kind = "null" THEN Some(FaceDetectionError(None))
  ELSE IF ~ isHtmlInput(input) /\ input.kind /= "nodeCanvas" THEN Some(FaceDetectionError(None))
  ELSE None

\* ValidationService.validateDisposed: None when it returns, the error it throws otherwise
validateDisposed(isDisposed) ==
  IF isDisposed THEN Some(FaceDetectionError(None)) ELSE None

\* canvas.width = r, canvas.height = r: a canvas dimension is a whole
\* number, the assigned value truncated
canvasDimension(r) == IF RLess(r, Int2Rat(0)) THEN 0 ELSE r.n \div r.d

\* ImageUtils.elementToCanvas: a canvas of the element's pixel size
elementToCanvas(element) == MediaInput("canvas", element.width, element.height)

\* ImageUtils.downscaleImage(element, targetWidth), targetWidth a number, where hasDoc is
\* typeof document !== 'undefined' and ctx2d is whether getContext('2d')
\* gives a context: [ok, downscaledCanvas, scaleFactor], ok FALSE when it throws
downscaleImage(element, targetWidth, hasDoc, ctx2d) ==
  LET originalCanvas == elementToCanvas(element)
      originalWidth == originalCanvas.width
      originalHeight == originalCanvas.height
      scaleFactor == RDiv(targetWidth, Int2Rat(originalWidth))
      targetHeight == MathRound(RMul(Int2Rat(originalHeight), scaleFactor))
      failed == [ok |-> FALSE, downscaledCanvas |-> element, scaleFactor |-> One]
  IN  IF ~ hasDoc THEN failed
      ELSE IF RLeq(Int2Rat(originalWidth), targetWidth)
      THEN [ok |-> TRUE,
            downscaledCanvas |-> MediaInput("canvas", originalWidth, originalHeight),
            scaleFactor |-> One]
      ELSE IF ~ ctx2d THEN failed
      ELSE [ok |-> TRUE,
            downscaledCanvas |-> MediaInput("canvas", canvasDimension(targetWidth),
                                            canvasDimension(Int2Rat(targetHeight))),
            scaleFactor |-> scaleFactor]

\* cropFace without the clamping of the offset at 0
cropFace_OffsetNotClamped(canvas, box, margin) ==
  LET marginX == RMul(box.width, margin)
      marginY == RMul(box.height, margin)
      offsetX == RSub(box.x, marginX)
      offsetY == RSub(box.y, marginY)
      cropWidth == RMin(RSub(Int2Rat(canvas.width), offsetX),
                        RAdd(box.width, RMul(Int2Rat(2), marginX)))
      cropHeight == RMin(RSub(Int2Rat(canvas.height), offsetY),
                         RAdd(box.height, RMul(Int2Rat(2), marginY)))
  IN  [cropWidth |-> cropWidth, cropHeight |-> cropHeight,
       offsetX |-> offsetX, offsetY |-> offsetY]

\* ImageUtils.cropFace(canvas, box, margin): the offset and size of the crop
cropFace(canvas, box, margin) ==
  LET marginX == RMul(box.width, margin)
      marginY == RMul(box.height, margin)
      offsetX == RMax(Int2Rat(0), RSub(box.x, marginX))
      offsetY == RMax(Int2Rat(0), RSub(box.y, marginY))
      cropWidth == RMin(RSub(Int2Rat(canvas.width), offsetX),
                        RAdd(box.width, RMul(Int2Rat(2), marginX)))
      cropHeight == RMin(RSub(Int2Rat(canvas.height), offsetY),
                         RAdd(box.height, RMul(Int2Rat(2), marginY)))
  IN  [cropWidth |-> cropWidth, cropHeight |-> cropHeight,
       offsetX |-> offsetX, offsetY |-> offsetY]

(***************************************************************************)
(* What the external models return                                         *)
(***************************************************************************)
\* a face as the face model returns it; keypoints holds each keypoint's score
RawFace(x, y, w, h, score, confidence, keypoints, probability, trackingID) ==
  [box |-> [xMin |-> Int2Rat(x), yMin |-> Int2Rat(y),
            width |-> Int2Rat(w), height |-> Int2Rat(h)],
   score |-> score, confidence |-> confidence, keypoints |-> keypoints,
   probability |-> probability, trackingID |-> trackingID]

\* the faces the face model can return: a small face with score 0.6, a
\* large one with a lower confidence, and one of the small one's area
\* that carries no score at all
RawFacePool ==
  {RawFace(20, 30, 40, 40, Some(Rat(6, 10)), None, <<>>, None, None),
   RawFace(200, 100, 100, 100, None, Some(Rat(1, 2)), <<>>, None, Some(7)),
   RawFace(300, 50, 80, 20, None, None, <<None, None>>, None, None)}

\* lists without repetition over a pool, up to a length
RECURSIVE DistinctSeqs(_, _)
DistinctSeqs(S, n) ==
  IF n = 0 THEN {<<>>}
  ELSE LET shorter == DistinctSeqs(S, n - 1)
       IN  shorter \cup
           {Append(s, e) : <<s, e>> \in
              {p \in shorter \X S : \A i \in 1..Len(p[1]) : p[1][i] /= p[2]}}

\* what one estimateFaces call of the face model can return
FaceModelResults == DistinctSeqs(RawFacePool, MaxDetections)

\* a keypoint of the landmark model; z is absent on some
Keypoint(x, y, z) == [x |-> Int2Rat(x), y |-> Int2Rat(y), z |-> z]

\* the keypoint lists (one list per face) the landmark model returns, in its order
RawMeshList ==
  <<<<Keypoint(10, 20, Some(Int2Rat(-3)))>>,
    <<Keypoint(30, 15, None), Keypoint(0, 0, Some(Int2Rat(5)))>>,
    <<Keypoint(7, 9, Some(Int2Rat(1)))>>>>

\* what one estimateFaces call of the landmark model can return: the
\* keypoint lists of the first n faces
LandmarkModelResults == {SubSeq(RawMeshList, 1, n) : n \in 0..MaxLandmarkSets}

(***************************************************************************)
(* Result shaping in the adapters                                          *)
(***************************************************************************)
Zero == Int2Rat(0)

\* typeof v === 'number' && v > 0 on an optional number
IsPositive(o) == IsSome(o) /\ RLess(Zero, Get(o))

RECURSIVE RSum(_)
RSum(s) == IF s = <<>> THEN Zero ELSE RAdd(Head(s), RSum(Tail(s)))

\* the filter of mapDetectedFaces: the keypoint scores that are positive numbers
RECURSIVE PositiveScores(_)
PositiveScores(kps) ==
  IF kps = <<>> THEN <<>>
  ELSE IF IsPositive(Head(kps)) THEN <<Get(Head(kps))>> \o PositiveScores(Tail(kps))
  ELSE PositiveScores(Tail(kps))

\* the score the face adapter falls back to for a valid box without a score
DefaultScore == Rat(95, 100)

\* a field of a raw face that holds no number
Undefined == [n |-> 0, d |-> 0]

\* typeof v === 'number' on a field of a raw box
IsNumber(v) == v.d /= 0

\* the test of mapDetectedFaces for a box that can stand in for a score
hasValidBox(box) ==
  /\ IsNumber(box.xMin) /\ IsNumber(box.yMin)
  /\ IsNumber(box.width) /\ IsNumber(box.height)
  /\ RLess(Zero, box.width) /\ RLess(Zero, box.height)

\* the score of one face with probability[0] tried before the first
\* keypoint's score
extractScore_ProbabilityBeforeKeypoint(face) ==
  LET keypointScore == IF Len(face.keypoints) > 0 THEN face.keypoints[1] ELSE None
      positives == PositiveScores(face.keypoints)
      score == IF IsPositive(face.score) THEN Get(face.score)
               ELSE IF IsPositive(face.confidence) THEN Get(face.confidence)
               ELSE IF IsPositive(face.probability) THEN Get(face.probability)
               ELSE IF IsPositive(keypointScore) THEN Get(keypointScore)
               ELSE IF Len(face.keypoints) > 0 /\ Len(positives) > 0
               THEN RDiv(RSum(positives), Int2Rat(Len(positives)))
               ELSE Zero
  IN  IF score = Zero /\ hasValidBox(face.box)
      THEN DefaultScore
      ELSE score

\* FaceDetector.mapDetectedFaces, the score of one face
extractScore(face) ==
  LET keypointScore == IF Len(face.keypoints) > 0 THEN face.keypoints[1] ELSE None
      positives == PositiveScores(face.keypoints)
      score == IF IsPositive(face.score) THEN Get(face.score)
               ELSE IF IsPositive(face.confidence) THEN Get(face.confidence)
               ELSE IF IsPositive(keypointScore) THEN Get(keypointScore)
               ELSE IF IsPositive(face.probability) THEN Get(face.probability)
               ELSE IF Len(face.keypoints) > 0 /\ Len(positives) > 0
               THEN RDiv(RSum(positives), Int2Rat(Len(positives)))
               ELSE Zero
  IN  IF score = Zero /\ hasValidBox(face.box)
      THEN DefaultScore
      ELSE score

\* FaceDetector.mapDetectedFaces, one face: the detection and the tracking id
mapDetectedFace(face) ==
  [detection |-> [score |-> extractScore(face),
                  box |-> [x |-> face.box.xMin, y |-> face.box.yMin,
                           width |-> face.box.width, height |-> face.box.height]],
   trackingID |-> face.trackingID]

\* FaceDetector.mapDetectedFaces
mapDetectedFaces(detectedFaces) ==
  [i \in 1..Len(detectedFaces) |-> mapDetectedFace(detectedFaces[i])]

\* LandmarkDetector.processTensorflowKeypoints: z: point.z || 0
processTensorflowKeypoints(meshPoints) ==
  [i \in 1..Len(meshPoints) |->
     [x |-> meshPoints[i].x, y |-> meshPoints[i].y,
      z |-> IF IsSome(meshPoints[i].z) THEN Get(meshPoints[i].z) ELSE Zero]]

\* LandmarkDetector.detectLandmarks, the mapping of the model's faces
mapLandmarkFaces(faces) ==
  [i \in 1..Len(faces) |-> [meshPoints |-> processTensorflowKeypoints(faces[i])]]

(***************************************************************************)
(* Coordinate mapping and fusion in FaceAPI                                *)
(***************************************************************************)
\* upscaleBox multiplying by the scale factor instead of dividing
upscaleBox_Multiply(box, scaleFactor) ==
  [x |-> RMul(box.x, scaleFactor),
   y |-> RMul(box.y, scaleFactor),
   width |-> RMul(box.width, scaleFactor),
   height |-> RMul(box.height, scaleFactor)]

\* FaceAPI.upscaleBox
upscaleBox(box, scaleFactor) ==
  [x |-> RDiv(box.x, scaleFactor),
   y |-> RDiv(box.y, scaleFactor),
   width |-> RDiv(box.width, scaleFactor),
   height |-> RDiv(box.height, scaleFactor)]

\* FaceAPI.upscaleFaces
upscaleFaces(faces, scaleFactor) ==
  [i \in 1..Len(faces) |->
     [faces[i] EXCEPT !.detection.box = upscaleBox(faces[i].detection.box, scaleFactor)]]

\* upscaleLandmarks scaling the depth with the other coordinates
upscalePoint_ScalesZ(p, scaleFactor) ==
  [x |-> RDiv(p.x, scaleFactor), y |-> RDiv(p.y, scaleFactor), z |-> RDiv(p.z, scaleFactor)]

\* FaceAPI.upscaleLandmarks, one point
upscalePoint(p, scaleFactor) ==
  [x |-> RDiv(p.x, scaleFactor), y |-> RDiv(p.y, scaleFactor), z |-> p.z]

\* FaceAPI.upscaleLandmarks
upscaleLandmarks(landmarkSets, scaleFactor) ==
  [i \in 1..Len(landmarkSets) |->
     [meshPoints |-> [j \in 1..Len(landmarkSets[i].meshPoints) |->
                        upscalePoint(landmarkSets[i].meshPoints[j], scaleFactor)]]]

\* detectFacesWithLandmarks, crop branch: one point moved by the crop's offset
offsetPoint(p, offsetX, offsetY) ==
  [x |-> RAdd(p.x, offsetX), y |-> RAdd(p.y, offsetY), z |-> p.z]

\* detectFacesWithLandmarks, crop branch: landmarksOnCropped.map(...)
offsetLandmarks(landmarkSets, offsetX, offsetY) ==
  [i \in 1..Len(landmarkSets) |->
     [meshPoints |-> [j \in 1..Len(landmarkSets[i].meshPoints) |->
                        offsetPoint(landmarkSets[i].meshPoints[j], offsetX, offsetY)]]]

\* landmarkResultSets[index] || { meshPoints: [] }
landmarksAt(landmarkResultSets, index) ==
  IF index <= Len(landmarkResultSets) THEN landmarkResultSets[index]
  ELSE [meshPoints |-> <<>>]

\* a face of the combined result: {...face, landmarks}
withLandmarks(face, landmarks) ==
  [detection |-> face.detection, trackingID |-> face.trackingID, landmarks |-> landmarks]

\* mapFacesToLandmarks keeping only the faces that have a landmark set
mapFacesToLandmarks_DropUnpaired(faces, landmarkResultSets) ==
  [i \in 1..(IF Len(faces) <= Len(landmarkResultSets) THEN Len(faces)
             ELSE Len(landmarkResultSets)) |->
     withLandmarks(faces[i], landmarkResultSets[i])]

\* mapFacesToLandmarks driven by the landmark sets: one entry per set, the
\* sets beyond the last face paired with the last face
mapFacesToLandmarks_PerLandmarkSet(faces, landmarkResultSets) ==
  [i \in 1..(IF Len(faces) <= Len(landmarkResultSets) THEN Len(landmarkResultSets)
             ELSE Len(faces)) |->
     withLandmarks(faces[IF i <= Len(faces) THEN i ELSE Len(faces)],
                   landmarksAt(landmarkResultSets, i))]

\* FaceAPI.mapFacesToLandmarks
mapFacesToLandmarks(faces, landmarkResultSets) ==
  [i \in 1..Len(faces) |-> withLandmarks(faces[i], landmarksAt(landmarkResultSets, i))]

\* the sort key of the single-face selection: width * height of the box
boxArea(face) == RMul(face.detection.box.width, face.detection.box.height)

\* the comparator on the score, (a, b) => b.detection.score - a.detection.score
comesBefore_ByScore(b, a) == RLess(a.detection.score, b.detection.score)

\* the comparator of the single-face selection, (a, b) => area(b) - area(a):
\* TRUE when it is positive, i.e. b has to come before a
comesBefore(b, a) == RLess(boxArea(a), boxArea(b))

\* one insertion of the stable sort: f goes before the first element it
\* has to come before, after every element it ties with
RECURSIVE insertSorted(_, _)
insertSorted(sorted, f) ==
  IF sorted = <<>> THEN <<f>>
  ELSE IF comesBefore(f, Head(sorted)) THEN <<f>> \o sorted
  ELSE <<Head(sorted)>> \o insertSorted(Tail(sorted), f)

\* [...upscaledFaces].sort(comparator): Array.prototype.sort is stable
RECURSIVE sortFaces(_)
sortFaces(faces) ==
  IF faces = <<>> THEN <<>>
  ELSE insertSorted(sortFaces(SubSeq(faces, 1, Len(faces) - 1)), faces[Len(faces)])

(***************************************************************************)
(* State                                                                   *)
(***************************************************************************)
VARIABLES
  hasDocument,  \* typeof document !== 'undefined' in this runtime
  api,          \* the FaceAPI instance: options, isDisposed
  fd,           \* its FaceDetector: isDisposed, environment, options, config, detector
  ld,           \* its LandmarkDetector: the same fields
  call,         \* the operation in flight or just settled, IdleCall when none
  obs           \* how often dispose was called on the instance, on each adapter
                \* and each model, and the latest options argument a detection
                \* call merged that no updateOptions or dispose has followed
                \* and on each external model
VARIABLES
  facade        \* the module state of the mediapipeFace facade: cachedAPI, the
                \* FaceAPI instances it has constructed, its calls in flight

vars == <<hasDocument, api, fd, ld, call, obs, facade>>

\* longest time, in clock ticks, that passes while a call waits on an
\* inference of an external model; call.clock is the time since the call's
\* startTime and stands still everywhere else
MaxTick == 1

Ticks == 0..MaxTick

\* the options objects callers pass
OptionsPool ==
  {Opt1("maxFaces", 1),
   Opt1("maxFaces", 0),
   Opt1("scoreThreshold", Rat(3, 2))}

\* an optional options argument
OptionsArgs == {None} \cup {Some(o) : o \in OptionsPool}

NoTiming == [total |-> 0, preprocessing |-> 0, inference |-> 0, postprocessing |-> 0]

NoCrop == [cropWidth |-> Zero, cropHeight |-> Zero, offsetX |-> Zero, offsetY |-> Zero]

\* the calls of the facade that can be in flight together
MaxFacadeCalls == 2
\* the dispose() calls of the facade that are followed
MaxFacadeDisposes == 2
\* no facade call is started once this many instances were constructed
MaxFacadeInstances == 2

\* a slot of the facade with no call in it
FacadeIdle ==
  [pc |-> "idle", hasOptions |-> FALSE, api |-> None,
   disturbed |-> FALSE, outcome |-> "none"]

\* let cachedAPI: FaceAPI | null = null, with nothing constructed and nothing
\* in flight; disposes counts the dispose() calls and built the instances
\* constructed since the latest of them; a call is disturbed once dispose()
\* was called while it was in flight
FacadeInit ==
  [cachedAPI |-> None, instances |-> <<>>, disposes |-> 0, built |-> 0,
   calls |-> [k \in 1..MaxFacadeCalls |-> FacadeIdle]]

\* no operation in flight; raised collects the steps of the call at which
\* something outside the library threw; wf and wl are the positions of the
\* two adapters' warmup inside FaceAPI.warmup, wfDetect and wlDetect say that
\* the adapter's onWarmup has reached its detection on the blank canvas;
\* utilArgs holds the arguments, after the image, of a direct ImageUtils call;
\* thresholdRead is this.options.downscaleWidthThreshold as the downscale
\* block of a detection read it, downscaleCalled that it called downscaleImage
IdleCall ==
  [op |-> "none", pc |-> "idle", outcome |-> "none", error |-> <<>>,
   disposedAtStart |-> FALSE,
   input |-> MediaInput("null", 0, 0), optionsArg |-> None,
   processedInput |-> MediaInput("null", 0, 0), passedUnchanged |-> FALSE,
   scaleFactor |-> One,
   clock |-> 0, preprocessingTime |-> 0, faceTiming |-> NoTiming,
   landmarkStartTime |-> 0,
   tfConfig |-> None, modelConfig |-> None, faceReturned |-> FALSE, rawFaces |-> <<>>, upscaledFaces |-> <<>>,
   landmarkCap |-> None, landmarkCalls |-> 0,
   path |-> "none", crop |-> NoCrop, landmarkInput |-> MediaInput("null", 0, 0),
   rawLandmarks |-> <<>>,
   faceCreates |-> 0, faceEstimates |-> 0, landmarkCreates |-> 0, landmarkEstimates |-> 0,
   raised |-> {},
   wf |-> "none", wfDetect |-> FALSE, wl |-> "none", wlDetect |-> FALSE,
   utilArgs |-> <<>>,
   thresholdRead |-> None, downscaleCalled |-> FALSE,
   result |-> [faces |-> <<>>, timing |-> NoTiming]]

\* the TensorFlow.js engine and the module's loadedBackends when the library
\* is loaded: no backend is active and none has been loaded
TfInit == [backend |-> None, loadedBackends |-> {}]

\* the state after new FaceAPI(optionsArg)
FaceAPINew(optionsArg) ==
  [options |-> FaceAPIOptions(optionsArg), isDisposed |-> FALSE]

Init ==
  /\ hasDocument \in BOOLEAN
  /\ \E optionsArg \in OptionsArgs :
       /\ api = FaceAPINew(optionsArg)
       /\ fd = FaceDetectorNew(FaceAPIOptions(optionsArg))
       /\ ld = LandmarkDetectorNew(FaceAPIOptions(optionsArg))
  /\ call = IdleCall
  /\ obs = [disposeCalls |-> 0, faceDetectorDispose |-> 0, landmarkDetectorDispose |-> 0,
            faceModelDispose |-> 0, landmarkModelDispose |-> 0,
            perCallOptions |-> None,
            tf |-> TfInit]
  /\ facade = FacadeInit

(***************************************************************************)
(* FaceAPI.dispose and FaceAPI.updateOptions                               *)
(***************************************************************************)
\* a call that has settled: it returned (error = <<>>) or threw
Settled(c, error) ==
  [c EXCEPT !.pc = "done",
            !.outcome = IF error = <<>> THEN "ok" ELSE "error",
            !.error = error]

\* BaseDetector.updateOptions throws on a disposed adapter
DetectorUpdateThrows(d) == d.isDisposed

\* updateOptions handing the options to the adapters without storing them
\* in this.options
FaceAPIUpdateOptions_NotPersisted(a, f, l, options) ==
  IF a.isDisposed
  THEN [api |-> a, fd |-> f, ld |-> l,
        error |-> FaceDetectionError(Some(RESOURCE_DISPOSED))]
  ELSE [api |-> a, fd |-> FaceDetectorUpdateOptions(f, options),
        ld |-> LandmarkDetectorUpdateOptions(l, options), error |-> <<>>]

\* FaceAPI.updateOptions(options): the instance, the adapters and the error
\* after it ([] when it returns)
FaceAPIUpdateOptions(a, f, l, options) ==
  LET merged == Spread(a.options, options)
      a2 == [a EXCEPT !.options =
               [merged EXCEPT !.downscaleWidthThreshold =
                  Coalesce(options.downscaleWidthThreshold, merged.downscaleWidthThreshold)]]
  IN  IF a.isDisposed
      THEN [api |-> a, fd |-> f, ld |-> l,
            error |-> FaceDetectionError(Some(RESOURCE_DISPOSED))]
      ELSE IF DetectorUpdateThrows(f)
      THEN [api |-> a2, fd |-> f, ld |-> l, error |-> FaceDetectionError(None)]
      ELSE IF DetectorUpdateThrows(l)
      THEN [api |-> a2, fd |-> FaceDetectorUpdateOptions(f, options), ld |-> l,
            error |-> FaceDetectionError(None)]
      ELSE [api |-> a2, fd |-> FaceDetectorUpdateOptions(f, options),
            ld |-> LandmarkDetectorUpdateOptions(l, options), error |-> <<>>]

\* FaceAPI.updateOptions(options) called by the user
UpdateOptions(options) ==
  LET r == FaceAPIUpdateOptions(api, fd, ld, options)
  IN  /\ call.pc = "idle"
      /\ api' = r.api
      /\ fd' = r.fd
      /\ ld' = r.ld
      /\ call' = Settled([IdleCall EXCEPT !.op = "updateOptions",
                                          !.disposedAtStart = api.isDisposed,
                                          !.optionsArg = Some(options)], r.error)
      /\ obs' = IF api.isDisposed THEN obs ELSE [obs EXCEPT !.perCallOptions = None]
      /\ UNCHANGED <<hasDocument, facade>>

\* FaceAPI.dispose(), the instance after it
FaceAPIDisposed(a) == [a EXCEPT !.isDisposed = TRUE]

\* FaceAPI.dispose() without its isDisposed guard: every call releases again
Dispose_Unguarded ==
  /\ call.pc = "idle"
  /\ obs.disposeCalls < MaxDisposeCalls
  /\ fd' = DetectorDispose(fd)
  /\ ld' = DetectorDispose(ld)
  /\ api' = FaceAPIDisposed(api)
  /\ obs' = [obs EXCEPT
       !.disposeCalls = @ + 1,
       !.faceDetectorDispose = @ + 1,
       !.landmarkDetectorDispose = @ + 1,
       !.faceModelDispose = IF ~ fd.isDisposed /\ IsSome(fd.detector) THEN @ + 1 ELSE @,
       !.landmarkModelDispose = IF ~ ld.isDisposed /\ IsSome(ld.detector) THEN @ + 1 ELSE @]
  /\ call' = Settled([IdleCall EXCEPT !.op = "dispose",
                                      !.disposedAtStart = api.isDisposed], <<>>)
  /\ UNCHANGED <<hasDocument, facade>>

\* FaceAPI.dispose() called by the user
Dispose ==
  /\ call.pc = "idle"
  /\ obs.disposeCalls < MaxDisposeCalls
  /\ IF ~ api.isDisposed
     THEN /\ fd' = DetectorDispose(fd)
          /\ ld' = DetectorDispose(ld)
          /\ api' = FaceAPIDisposed(api)
          /\ obs' = [obs EXCEPT
               !.disposeCalls = @ + 1,
               !.faceDetectorDispose = @ + 1,
               !.landmarkDetectorDispose = @ + 1,
               !.faceModelDispose = IF ~ fd.isDisposed /\ IsSome(fd.detector) THEN @ + 1 ELSE @,
               !.landmarkModelDispose = IF ~ ld.isDisposed /\ IsSome(ld.detector) THEN @ + 1 ELSE @,
               !.perCallOptions = None]
     ELSE /\ obs' = [obs EXCEPT !.disposeCalls = @ + 1]
          /\ UNCHANGED <<api, fd, ld>>
  /\ call' = Settled([IdleCall EXCEPT !.op = "dispose",
                                      !.disposedAtStart = api.isDisposed], <<>>)
  /\ UNCHANGED <<hasDocument, facade>>

\* the caller has received the outcome of the settled call
Settle ==
  /\ call.pc = "done"
  /\ call' = IdleCall
  /\ UNCHANGED <<hasDocument, facade, api, fd, ld, obs>>

(***************************************************************************)
(* detectFaces and detectFacesWithLandmarks up to the face model           *)
(***************************************************************************)
\* the catch of FaceAPI.detectFaces / detectFacesWithLandmarks
ApiCatch(error) == FaceDetectionErrorWithCause(DETECTION_FAILED, error)

\* the catch of FaceDetector.detectFaces
FaceDetectorCatch(error) == FaceDetectionErrorWithCause(DETECTION_FAILED, error)

\* the catch of FaceDetector.ensureDetectorLoaded
FaceLoadCatch(error) == FaceDetectionErrorWithCause(MODEL_LOAD_FAILED, error)

\* the test of the downscale block without the test of the input's type
shouldDownscale_AnyInput(options, hasDoc, input) ==
  /\ IsSome(options.downscaleWidthThreshold)
  /\ Get(options.downscaleWidthThreshold) > 0
  /\ hasDoc

\* this.options.downscaleWidthThreshold && ... > 0 && isBrowserEnv && isHtmlInput
shouldDownscale(options, hasDoc, input) ==
  /\ IsSome(options.downscaleWidthThreshold)
  /\ Get(options.downscaleWidthThreshold) > 0
  /\ hasDoc
  /\ isHtmlInput(input)

\* the input handed to the face adapter and its scale factor: the downscale
\* block of detectFaces / detectFacesWithLandmarks
preprocess(options, hasDoc, input, ctx2d) ==
  LET d == downscaleImage(input, Int2Rat(Get(options.downscaleWidthThreshold)), hasDoc, ctx2d)
  IN  IF shouldDownscale(options, hasDoc, input) /\ d.ok
      THEN [processedInput |-> d.downscaledCanvas, scaleFactor |-> d.scaleFactor,
            passedUnchanged |-> FALSE, threw |-> FALSE, called |-> TRUE]
      ELSE [processedInput |-> input, scaleFactor |-> One, passedUnchanged |-> TRUE,
            threw |-> shouldDownscale(options, hasDoc, input),
            called |-> shouldDownscale(options, hasDoc, input)]

\* FaceDetector.detectFaces after ensureDetectorLoaded has returned:
\* preprocessingTime is taken and this.detector!.estimateFaces is called
issueFaceEstimate(c, f) ==
  IF f.detector = None
  THEN Settled([c EXCEPT !.preprocessingTime = c.clock],
               ApiCatch(FaceDetectorCatch(NativeError)))
  ELSE [c EXCEPT !.pc = "faceInfer",
                 !.preprocessingTime = c.clock,
                 !.faceEstimates = @ + 1]

\* FaceDetector.detectFaces from its entry to its first await
enterFaceDetector(c, f) ==
  IF f.isDisposed
  THEN Settled(c, ApiCatch(FaceDetectionError(Some(RESOURCE_DISPOSED))))
  ELSE IF f.detector = None
  THEN [c EXCEPT !.pc = "faceBackend"]
  ELSE issueFaceEstimate(c, f)

\* the entry of a detection with the options merged before the downscale block
BeginDetect_MergeFirst(op, input, optionsArg, ctx2d) ==
  LET upd == IF IsSome(optionsArg)
             THEN FaceAPIUpdateOptions(api, fd, ld, Get(optionsArg))
             ELSE [api |-> api, fd |-> fd, ld |-> ld, error |-> <<>>]
      pre == preprocess(upd.api.options, hasDocument, input, ctx2d)
      c0 == [IdleCall EXCEPT !.op = op, !.pc = "start",
                             !.disposedAtStart = api.isDisposed,
                             !.input = input, !.optionsArg = optionsArg]
      c1 == [c0 EXCEPT !.processedInput = pre.processedInput,
                       !.scaleFactor = pre.scaleFactor,
                       !.passedUnchanged = pre.passedUnchanged,
                       !.raised = IF pre.threw THEN {"downscale"} ELSE {},
                       !.thresholdRead = api.options.downscaleWidthThreshold,
                       !.downscaleCalled = pre.called]
  IN  /\ call.pc = "idle"
      /\ UNCHANGED <<hasDocument, facade>>
      /\ IF IsSome(validateDisposed(api.isDisposed))
         THEN /\ call' = Settled(c0, Get(validateDisposed(api.isDisposed)))
              /\ UNCHANGED <<api, fd, ld, obs>>
         ELSE IF IsSome(validateInput(input))
         THEN /\ call' = Settled(c0, Get(validateInput(input)))
              /\ UNCHANGED <<api, fd, ld, obs>>
         ELSE /\ api' = upd.api
              /\ obs' = IF IsSome(optionsArg) THEN [obs EXCEPT !.perCallOptions = optionsArg]
                         ELSE obs
              /\ fd' = upd.fd
              /\ ld' = upd.ld
              /\ call' = IF upd.error /= <<>> THEN Settled(c1, upd.error)
                         ELSE enterFaceDetector(c1, upd.fd)

\* detectFaces(input, options) or detectFacesWithLandmarks(input, options)
\* from its entry to its first await
BeginDetect(op, input, optionsArg, ctx2d) ==
  LET pre == preprocess(api.options, hasDocument, input, ctx2d)
      upd == IF IsSome(optionsArg)
             THEN FaceAPIUpdateOptions(api, fd, ld, Get(optionsArg))
             ELSE [api |-> api, fd |-> fd, ld |-> ld, error |-> <<>>]
      c0 == [IdleCall EXCEPT !.op = op, !.pc = "start",
                             !.disposedAtStart = api.isDisposed,
                             !.input = input, !.optionsArg = optionsArg]
      c1 == [c0 EXCEPT !.processedInput = pre.processedInput,
                       !.scaleFactor = pre.scaleFactor,
                       !.passedUnchanged = pre.passedUnchanged,
                       !.raised = IF pre.threw THEN {"downscale"} ELSE {},
                       !.thresholdRead = api.options.downscaleWidthThreshold,
                       !.downscaleCalled = pre.called]
  IN  /\ call.pc = "idle"
      /\ UNCHANGED <<hasDocument, facade>>
      /\ IF IsSome(validateDisposed(api.isDisposed))
         THEN /\ call' = Settled(c0, Get(validateDisposed(api.isDisposed)))
              /\ UNCHANGED <<api, fd, ld, obs>>
         ELSE IF IsSome(validateInput(input))
         THEN /\ call' = Settled(c0, Get(validateInput(input)))
              /\ UNCHANGED <<api, fd, ld, obs>>
         ELSE /\ api' = upd.api
              /\ obs' = IF IsSome(optionsArg) THEN [obs EXCEPT !.perCallOptions = optionsArg]
                         ELSE obs
              /\ fd' = upd.fd
              /\ ld' = upd.ld
              /\ call' = IF upd.error /= <<>> THEN Settled(c1, upd.error)
                         ELSE enterFaceDetector(c1, upd.fd)

\* the options parameter is last read by the updateOptions of the entry: a
\* call that has resumed from its first await no longer holds it
pastEntry(c) == [c EXCEPT !.optionsArg = None]

\* the operations a user starts a detection with
DetectFaces ==
  \E input \in InputPool, optionsArg \in OptionsArgs, ctx2d \in BOOLEAN :
    BeginDetect("detectFaces", input, optionsArg, ctx2d)

DetectFacesWithLandmarks ==
  \E input \in InputPool, optionsArg \in OptionsArgs, ctx2d \in BOOLEAN :
    BeginDetect("detectFacesWithLandmarks", input, optionsArg, ctx2d)

\* ensureTensorflowBackend settles inside FaceDetector.ensureDetectorLoaded:
\* on success the model configuration is mapped and createDetector is called
FaceBackendDone(ok) ==
  /\ call.pc = "faceBackend"
  /\ call' = IF ~ ok
             THEN Settled([pastEntry(call) EXCEPT !.raised = @ \cup {"faceBackend"}],
                          ApiCatch(FaceDetectorCatch(FaceLoadCatch(FaceDetectionError(None)))))
             ELSE [pastEntry(call) EXCEPT !.pc = "faceCreate",
                               !.tfConfig = Some(mapConfigToTfConfig(fd.config)),
                               !.faceCreates = @ + 1]
  /\ UNCHANGED <<hasDocument, facade, api, fd, ld, obs>>

\* createDetector settles: the model is cached; in a runtime with a
\* document one inference on a blank canvas follows
FaceCreateDone(ok) ==
  /\ call.pc = "faceCreate"
  /\ IF ~ ok
     THEN /\ call' = Settled([call EXCEPT !.raised = @ \cup {"faceCreate"}],
                             ApiCatch(FaceDetectorCatch(FaceLoadCatch(NativeError))))
          /\ fd' = fd
     ELSE /\ fd' = [fd EXCEPT !.detector = call.tfConfig]
          /\ call' = IF hasDocument
                     THEN [call EXCEPT !.pc = "faceWarmup", !.faceEstimates = @ + 1]
                     ELSE issueFaceEstimate(call, fd')
  /\ UNCHANGED <<hasDocument, facade, api, ld, obs>>

\* the blank-canvas inference of ensureDetectorLoaded settles, either way
FaceWarmupDone ==
  /\ call.pc = "faceWarmup"
  /\ call' = issueFaceEstimate(call, fd)
  /\ UNCHANGED <<hasDocument, facade, api, fd, ld, obs>>

(***************************************************************************)
(* After the face model has answered                                       *)
(***************************************************************************)
\* the timing record FaceDetector.detectFaces returns; the clock does not
\* advance while the adapter maps the faces
faceAdapterTiming(c) ==
  [total |-> c.clock,
   preprocessing |-> c.preprocessingTime,
   inference |-> c.clock - c.preprocessingTime,
   postprocessing |-> 0]

\* faceResult.faces.length > 1 && this.landmarkDetector['config']?.maxFaces === 1
singleFacePath(faces, l) == Len(faces) > 1 /\ l.config.maxFaces = 1

\* isBrowserEnv && isCompatibleInput, on the original input
canCrop(hasDoc, originalInput) == hasDoc /\ isHtmlInput(originalInput)

\* the face the single-face path keeps: sortedFaces[0]
highestConfidenceFace(upscaledFaces) == sortFaces(upscaledFaces)[1]

\* the box handed to cropFace and the margin: the selected face's box, 0
cropOf(originalInput, upscaledFaces) ==
  cropFace(elementToCanvas(originalInput),
           highestConfidenceFace(upscaledFaces).detection.box, Zero)

\* LandmarkDetector.detectLandmarks from its entry to its first await
enterLandmarkDetector(c, l) ==
  IF l.isDisposed
  THEN Settled([c EXCEPT !.landmarkCalls = @ + 1], ApiCatch(FaceDetectionError(None)))
  ELSE IF l.detector = None
  THEN [c EXCEPT !.landmarkCalls = @ + 1, !.pc = "landmarkBackend"]
  ELSE [c EXCEPT !.landmarkCalls = @ + 1, !.pc = "landmarkInfer",
                 !.landmarkEstimates = @ + 1]

\* detectFaces after the face adapter has returned faceResult
finishDetectFaces(c, faces) ==
  Settled([c EXCEPT !.result =
             [faces |-> IF c.scaleFactor /= One THEN upscaleFaces(faces, c.scaleFactor)
                        ELSE faces,
              timing |-> faceAdapterTiming(c)]], <<>>)

\* detectFacesWithLandmarks without the zero-face return: an empty face
\* list goes down the multi-face path
continueWithLandmarks_NoZeroCheck(c, faces, l, hasDoc) ==
  enterLandmarkDetector(
    [c EXCEPT !.upscaledFaces = faces,
              !.landmarkCap = Some(l.config.maxFaces),
              !.faceTiming = faceAdapterTiming(c),
              !.landmarkStartTime = c.clock,
              !.path = "multi", !.landmarkInput = c.processedInput], l)

\* detectFacesWithLandmarks after the face adapter has returned faceResult,
\* up to its next await: the zero-face return, or the upscaling of the
\* boxes, the choice of the path, the crop, and the call of the landmark adapter
continueWithLandmarks(c, faces, l, hasDoc) ==
  LET upscaled == IF c.scaleFactor /= One THEN upscaleFaces(faces, c.scaleFactor) ELSE faces
      c1 == [c EXCEPT !.upscaledFaces = upscaled,
                      !.landmarkCap = Some(l.config.maxFaces),
                      !.faceTiming = faceAdapterTiming(c),
                      !.landmarkStartTime = c.clock]
      crop == cropOf(c.input, upscaled)
  IN  IF Len(faces) = 0
      THEN Settled([c EXCEPT !.path = "zero",
                             !.faceTiming = faceAdapterTiming(c),
                             !.result = [faces |-> <<>>,
                                         timing |-> [faceAdapterTiming(c) EXCEPT !.total = c.clock]]],
                   <<>>)
      ELSE IF singleFacePath(faces, l)
      THEN IF canCrop(hasDoc, c.input)
           THEN enterLandmarkDetector(
                  [c1 EXCEPT !.path = "crop", !.crop = crop,
                             !.landmarkInput = MediaInput("canvas",
                                                          canvasDimension(crop.cropWidth),
                                                          canvasDimension(crop.cropHeight))], l)
           ELSE enterLandmarkDetector(
                  [c1 EXCEPT !.path = "fallback", !.landmarkInput = c.processedInput], l)
      ELSE enterLandmarkDetector(
             [c1 EXCEPT !.path = "multi", !.landmarkInput = c.processedInput], l)

\* estimateFaces of the face model settles: it threw, or it returned
\* detectedFaces, which the adapter maps and the FaceAPI method takes over
FaceInferDone(ok, detectedFaces, dt) ==
  LET c == [pastEntry(call) EXCEPT !.clock = @ + dt, !.faceReturned = TRUE,
                                   !.rawFaces = detectedFaces]
      faces == mapDetectedFaces(detectedFaces)
  IN  /\ call.pc = "faceInfer"
      /\ call' = IF ~ ok
                 THEN Settled([pastEntry(call) EXCEPT !.clock = @ + dt,
                                                      !.raised = @ \cup {"faceEstimate"}],
                              ApiCatch(FaceDetectorCatch(NativeError)))
                 ELSE IF call.op = "detectFaces" THEN finishDetectFaces(c, faces)
                 ELSE continueWithLandmarks(c, faces, ld, hasDocument)
      /\ UNCHANGED <<hasDocument, facade, api, fd, ld, obs>>

(***************************************************************************)
(* The landmark phase of detectFacesWithLandmarks                          *)
(***************************************************************************)
\* the configuration LandmarkDetector.ensureDetectorLoaded creates the model with
landmarkModelConfig(config) ==
  [runtime |-> config.runtime, maxFaces |-> config.maxFaces,
   refineLandmarks |-> config.refineLandmarks]

\* ensureTensorflowBackend settles inside LandmarkDetector.ensureDetectorLoaded:
\* on success the model configuration is put together and createDetector is
\* called
LandmarkBackendDone(ok) ==
  /\ call.pc = "landmarkBackend"
  /\ call' = IF ~ ok
             THEN Settled([call EXCEPT !.raised = @ \cup {"landmarkBackend"}],
                          ApiCatch(FaceDetectionError(None)))
             ELSE [call EXCEPT !.pc = "landmarkCreate",
                               !.modelConfig = Some(landmarkModelConfig(ld.config)),
                               !.landmarkCreates = @ + 1]
  /\ UNCHANGED <<hasDocument, facade, api, fd, ld, obs>>

\* createDetector of the landmark model settling with a handle cached even
\* when it failed
LandmarkCreateDone_CachesOnFailure(ok) ==
  /\ call.pc = "landmarkCreate"
  /\ ld' = [ld EXCEPT !.detector = call.modelConfig]
  /\ call' = IF ~ ok
             THEN Settled([call EXCEPT !.raised = @ \cup {"landmarkCreate"}],
                          ApiCatch(FaceDetectionError(None)))
             ELSE [call EXCEPT !.pc = "landmarkInfer", !.landmarkEstimates = @ + 1]
  /\ UNCHANGED <<hasDocument, facade, api, fd, obs>>

\* createDetector of the landmark model settles; on success the model, built
\* from the configuration it was called with, is cached and its
\* estimateFaces is called
LandmarkCreateDone(ok) ==
  /\ call.pc = "landmarkCreate"
  /\ IF ~ ok
     THEN /\ call' = Settled([call EXCEPT !.raised = @ \cup {"landmarkCreate"}],
                             ApiCatch(FaceDetectionError(None)))
          /\ ld' = ld
     ELSE /\ ld' = [ld EXCEPT !.detector = call.modelConfig]
          /\ call' = [call EXCEPT !.pc = "landmarkInfer", !.landmarkEstimates = @ + 1]
  /\ UNCHANGED <<hasDocument, facade, api, fd, obs>>

\* the timing of a result with landmarks, total taken from landmarkStartTime
combinedTiming_TotalFromLandmarkStart(c, now) ==
  [total |-> now - c.landmarkStartTime,
   preprocessing |-> c.faceTiming.preprocessing,
   inference |-> c.faceTiming.inference + (now - c.landmarkStartTime),
   postprocessing |-> c.faceTiming.postprocessing]

\* the timing of a result with landmarks
combinedTiming(c, now) ==
  [total |-> now,
   preprocessing |-> c.faceTiming.preprocessing,
   inference |-> c.faceTiming.inference + (now - c.landmarkStartTime),
   postprocessing |-> c.faceTiming.postprocessing]

\* the faces of the result once the landmark adapter has returned
\* landmarkSets, on the path the call took
combinedFaces(c, landmarkSets) ==
  LET adjusted == IF c.path = "crop"
                  THEN offsetLandmarks(landmarkSets, c.crop.offsetX, c.crop.offsetY)
                  ELSE IF c.scaleFactor /= One
                  THEN upscaleLandmarks(landmarkSets, c.scaleFactor)
                  ELSE landmarkSets
  IN  IF c.path = "multi"
      THEN mapFacesToLandmarks(c.upscaledFaces, adjusted)
      ELSE <<withLandmarks(highestConfidenceFace(c.upscaledFaces), landmarksAt(adjusted, 1))>>

\* estimateFaces of the landmark model settling with the cached model dropped
\* when it threw
LandmarkInferDone_DropsModelOnFailure(ok, meshes, dt) ==
  LET now == call.clock + dt
  IN  /\ call.pc = "landmarkInfer"
      /\ call' = IF ~ ok
                 THEN Settled([call EXCEPT !.clock = now,
                                           !.raised = @ \cup {"landmarkEstimate"}],
                              ApiCatch(FaceDetectionError(None)))
                 ELSE Settled([call EXCEPT
                                 !.clock = now,
                                 !.rawLandmarks = meshes,
                                 !.result = [faces |-> combinedFaces(call, mapLandmarkFaces(meshes)),
                                             timing |-> combinedTiming(call, now)]], <<>>)
      /\ ld' = IF ok THEN ld ELSE [ld EXCEPT !.detector = None]
      /\ UNCHANGED <<hasDocument, facade, api, fd, obs>>

\* estimateFaces of the landmark model settles: it threw, or it returned one
\* keypoint list per face, and detectFacesWithLandmarks returns
LandmarkInferDone(ok, meshes, dt) ==
  LET now == call.clock + dt
  IN  /\ call.pc = "landmarkInfer"
      /\ call' = IF ~ ok
                 THEN Settled([call EXCEPT !.clock = now,
                                           !.raised = @ \cup {"landmarkEstimate"}],
                              ApiCatch(FaceDetectionError(None)))
                 ELSE Settled([call EXCEPT
                                 !.clock = now,
                                 !.rawLandmarks = meshes,
                                 !.result = [faces |-> combinedFaces(call, mapLandmarkFaces(meshes)),
                                             timing |-> combinedTiming(call, now)]], <<>>)
      /\ UNCHANGED <<hasDocument, facade, api, fd, ld, obs>>

(***************************************************************************)
(* The specification                                                       *)
(***************************************************************************)
Next ==
  \/ Dispose
  \/ \E options \in OptionsPool : UpdateOptions(options)
  \/ DetectFaces
  \/ DetectFacesWithLandmarks
  \/ \E ok \in BOOLEAN : FaceBackendDone(ok)
  \/ \E ok \in BOOLEAN : FaceCreateDone(ok)
  \/ FaceWarmupDone
  \/ \E dt \in Ticks :
       \/ FaceInferDone(FALSE, <<>>, dt)
       \/ \E detectedFaces \in FaceModelResults : FaceInferDone(TRUE, detectedFaces, dt)
  \/ \E ok \in BOOLEAN : LandmarkBackendDone(ok)
  \/ \E ok \in BOOLEAN : LandmarkCreateDone(ok)
  \/ \E dt \in Ticks :
       \/ LandmarkInferDone(FALSE, <<>>, dt)
       \/ \E meshes \in LandmarkModelResults : LandmarkInferDone(TRUE, meshes, dt)
  \/ Settle

Spec == Init /\ [][Next]_vars

TypeOK ==
  /\ hasDocument \in BOOLEAN
  /\ api.isDisposed \in BOOLEAN
  /\ call.pc \in {"idle", "done", "faceBackend", "faceCreate", "faceWarmup", "faceInfer",
                  "landmarkBackend", "landmarkCreate", "landmarkInfer", "warmup"}
  /\ call.wf \in {"none", "backend", "create", "modelWarmup", "estimate", "done"}
  /\ call.wl \in {"none", "backend", "create", "estimate", "done"}

(***************************************************************************)
(* FaceAPI.warmup                                                          *)
(***************************************************************************)
\* FaceDetector.onWarmup calls this.detectFaces(canvas), up to its next await;
\* what detectFaces throws is caught by onWarmup
warmFaceDetect(c, f) ==
  IF f.isDisposed THEN [c EXCEPT !.wf = "done", !.wfDetect = TRUE]
  ELSE IF f.detector = None THEN [c EXCEPT !.wf = "backend", !.wfDetect = TRUE]
  ELSE [c EXCEPT !.wf = "estimate", !.wfDetect = TRUE, !.faceEstimates = @ + 1]

\* ensureDetectorLoaded of the face adapter has returned: inside detectFaces
\* the model is called (a TypeError when it is gone); inside onWarmup the
\* blank-canvas detection follows where there is a document
warmFaceLoaded(c, f, hasDoc) ==
  IF c.wfDetect
  THEN IF f.detector = None THEN [c EXCEPT !.wf = "done"]
       ELSE [c EXCEPT !.wf = "estimate", !.faceEstimates = @ + 1]
  ELSE IF hasDoc THEN warmFaceDetect(c, f)
  ELSE [c EXCEPT !.wf = "done"]

\* BaseDetector.warmup of the face adapter from its entry to its first await
warmFaceStart(c, f, hasDoc) ==
  IF f.isDisposed THEN [c EXCEPT !.wf = "done"]
  ELSE IF f.detector = None THEN [c EXCEPT !.wf = "backend"]
  ELSE warmFaceLoaded(c, f, hasDoc)

\* LandmarkDetector.onWarmup calls this.detectLandmarks(canvas)
warmLandmarkDetect(c, l) ==
  IF l.isDisposed THEN [c EXCEPT !.wl = "done", !.wlDetect = TRUE]
  ELSE IF l.detector = None THEN [c EXCEPT !.wl = "backend", !.wlDetect = TRUE]
  ELSE [c EXCEPT !.wl = "estimate", !.wlDetect = TRUE, !.landmarkEstimates = @ + 1]

\* ensureDetectorLoaded of the landmark adapter has returned
warmLandmarkLoaded(c, l, hasDoc) ==
  IF c.wlDetect
  THEN IF l.detector = None THEN [c EXCEPT !.wl = "done"]
       ELSE [c EXCEPT !.wl = "estimate", !.landmarkEstimates = @ + 1]
  ELSE IF hasDoc THEN warmLandmarkDetect(c, l)
  ELSE [c EXCEPT !.wl = "done"]

\* BaseDetector.warmup of the landmark adapter from its entry to its first await
warmLandmarkStart(c, l, hasDoc) ==
  IF l.isDisposed THEN [c EXCEPT !.wl = "done"]
  ELSE IF l.detector = None THEN [c EXCEPT !.wl = "backend"]
  ELSE warmLandmarkLoaded(c, l, hasDoc)

\* FaceAPI.warmup() called by the user: validateDisposed, then both
\* adapters' warmup are started inside Promise.all
Warmup ==
  LET c0 == [IdleCall EXCEPT !.op = "warmup", !.disposedAtStart = api.isDisposed]
  IN  /\ call.pc = "idle"
      /\ call' = IF IsSome(validateDisposed(api.isDisposed))
                 THEN Settled(c0, Get(validateDisposed(api.isDisposed)))
                 ELSE warmLandmarkStart(
                        warmFaceStart([c0 EXCEPT !.pc = "warmup"], fd, hasDocument),
                        ld, hasDocument)
      /\ UNCHANGED <<hasDocument, facade, api, fd, ld, obs>>

\* ensureTensorflowBackend settles inside the face adapter's warmup; a
\* failure ends the adapter's warmup in the catch of BaseDetector.warmup
WarmFaceBackendDone(ok) ==
  /\ call.pc = "warmup" /\ call.wf = "backend"
  /\ call' = IF ~ ok
             THEN [call EXCEPT !.wf = "done", !.raised = @ \cup {"faceBackend"}]
             ELSE [call EXCEPT !.wf = "create",
                               !.tfConfig = Some(mapConfigToTfConfig(fd.config)),
                               !.faceCreates = @ + 1]
  /\ UNCHANGED <<hasDocument, facade, api, fd, ld, obs>>

\* createDetector settling with the failure reaching the caller of warmup
WarmFaceCreateDone_Throws(ok) ==
  /\ call.pc = "warmup" /\ call.wf = "create"
  /\ IF ~ ok
     THEN /\ call' = Settled([call EXCEPT !.raised = @ \cup {"faceCreate"}],
                             FaceLoadCatch(NativeError))
          /\ fd' = fd
     ELSE /\ fd' = [fd EXCEPT !.detector = call.tfConfig]
          /\ call' = IF hasDocument
                     THEN [call EXCEPT !.wf = "modelWarmup", !.faceEstimates = @ + 1]
                     ELSE warmFaceLoaded(call, fd', hasDocument)
  /\ UNCHANGED <<hasDocument, facade, api, ld, obs>>

\* createDetector settles inside the face adapter's warmup: the model is
\* cached; in a runtime with a document the blank-canvas inference of
\* ensureDetectorLoaded follows
WarmFaceCreateDone(ok) ==
  /\ call.pc = "warmup" /\ call.wf = "create"
  /\ IF ~ ok
     THEN /\ call' = [call EXCEPT !.wf = "done", !.raised = @ \cup {"faceCreate"}]
          /\ fd' = fd
     ELSE /\ fd' = [fd EXCEPT !.detector = call.tfConfig]
          /\ call' = IF hasDocument
                     THEN [call EXCEPT !.wf = "modelWarmup", !.faceEstimates = @ + 1]
                     ELSE warmFaceLoaded(call, fd', hasDocument)
  /\ UNCHANGED <<hasDocument, facade, api, ld, obs>>

\* the blank-canvas inference of ensureDetectorLoaded settles, either way
WarmFaceModelWarmupDone ==
  /\ call.pc = "warmup" /\ call.wf = "modelWarmup"
  /\ call' = warmFaceLoaded(call, fd, hasDocument)
  /\ UNCHANGED <<hasDocument, facade, api, fd, ld, obs>>

\* estimateFaces of onWarmup's detectFaces(canvas) settles; a failure is
\* caught by onWarmup
WarmFaceEstimateDone(ok) ==
  /\ call.pc = "warmup" /\ call.wf = "estimate"
  /\ call' = [call EXCEPT !.wf = "done",
                          !.raised = IF ok THEN @ ELSE @ \cup {"faceEstimate"}]
  /\ UNCHANGED <<hasDocument, facade, api, fd, ld, obs>>

\* ensureTensorflowBackend settles inside the landmark adapter's warmup
WarmLandmarkBackendDone(ok) ==
  /\ call.pc = "warmup" /\ call.wl = "backend"
  /\ call' = IF ~ ok
             THEN [call EXCEPT !.wl = "done", !.raised = @ \cup {"landmarkBackend"}]
             ELSE [call EXCEPT !.wl = "create",
                               !.modelConfig = Some(landmarkModelConfig(ld.config)),
                               !.landmarkCreates = @ + 1]
  /\ UNCHANGED <<hasDocument, facade, api, fd, ld, obs>>

\* createDetector settles inside the landmark adapter's warmup
WarmLandmarkCreateDone(ok) ==
  /\ call.pc = "warmup" /\ call.wl = "create"
  /\ IF ~ ok
     THEN /\ call' = [call EXCEPT !.wl = "done", !.raised = @ \cup {"landmarkCreate"}]
          /\ ld' = ld
     ELSE /\ ld' = [ld EXCEPT !.detector = call.modelConfig]
          /\ call' = warmLandmarkLoaded(call, ld', hasDocument)
  /\ UNCHANGED <<hasDocument, facade, api, fd, obs>>

\* estimateFaces of onWarmup's detectLandmarks(canvas) settles; a failure
\* is caught by onWarmup
WarmLandmarkEstimateDone(ok) ==
  /\ call.pc = "warmup" /\ call.wl = "estimate"
  /\ call' = [call EXCEPT !.wl = "done",
                          !.raised = IF ok THEN @ ELSE @ \cup {"landmarkEstimate"}]
  /\ UNCHANGED <<hasDocument, facade, api, fd, ld, obs>>

\* warmup returning as soon as either adapter's warmup has settled
WarmupJoin_AnySettled ==
  /\ call.pc = "warmup" /\ (call.wf = "done" \/ call.wl = "done")
  /\ call' = Settled(call, <<>>)
  /\ UNCHANGED <<hasDocument, facade, api, fd, ld, obs>>

\* Promise.all settles once both adapters' warmup have, and warmup returns
WarmupJoin ==
  /\ call.pc = "warmup" /\ call.wf = "done" /\ call.wl = "done"
  /\ call' = Settled(call, <<>>)
  /\ UNCHANGED <<hasDocument, facade, api, fd, ld, obs>>

NextWarmup ==
  \/ Warmup
  \/ \E ok \in BOOLEAN : WarmFaceBackendDone(ok)
  \/ \E ok \in BOOLEAN : WarmFaceCreateDone(ok)
  \/ WarmFaceModelWarmupDone
  \/ \E ok \in BOOLEAN : WarmFaceEstimateDone(ok)
  \/ \E ok \in BOOLEAN : WarmLandmarkBackendDone(ok)
  \/ \E ok \in BOOLEAN : WarmLandmarkCreateDone(ok)
  \/ \E ok \in BOOLEAN : WarmLandmarkEstimateDone(ok)
  \/ WarmupJoin
  \/ \E options \in OptionsPool : UpdateOptions(options)
  \/ Dispose
  \/ Settle

SpecWarmup == Init /\ [][NextWarmup]_vars

(***************************************************************************)
(* FaceAPI.dispose() while a call is in flight                             *)
(***************************************************************************)
\* FaceAPI.dispose() called by the user while a detection or a warmup is
\* suspended at an await: dispose is synchronous and does not touch the call
DisposeInFlight ==
  /\ call.pc \notin {"idle", "done"}
  /\ obs.disposeCalls < MaxDisposeCalls
  /\ IF ~ api.isDisposed
     THEN /\ fd' = DetectorDispose(fd)
          /\ ld' = DetectorDispose(ld)
          /\ api' = FaceAPIDisposed(api)
          /\ obs' = [obs EXCEPT
               !.disposeCalls = @ + 1,
               !.faceDetectorDispose = @ + 1,
               !.landmarkDetectorDispose = @ + 1,
               !.faceModelDispose = IF ~ fd.isDisposed /\ IsSome(fd.detector) THEN @ + 1 ELSE @,
               !.landmarkModelDispose = IF ~ ld.isDisposed /\ IsSome(ld.detector) THEN @ + 1 ELSE @,
               !.perCallOptions = None]
     ELSE /\ obs' = [obs EXCEPT !.disposeCalls = @ + 1]
          /\ UNCHANGED <<api, fd, ld>>
  /\ UNCHANGED <<hasDocument, facade, call>>

\* the image the calls in flight are given
InFlightInput == MediaInput("canvas", 640, 480)

\* a detection started without per-call options
InFlightDetect ==
  \E op \in {"detectFaces", "detectFacesWithLandmarks"} :
    BeginDetect(op, InFlightInput, None, TRUE)

NextInFlight ==
  \/ InFlightDetect
  \/ Warmup
  \/ DisposeInFlight
  \/ Dispose
  \/ \E ok \in BOOLEAN : FaceBackendDone(ok)
  \/ \E ok \in BOOLEAN : FaceCreateDone(ok)
  \/ FaceWarmupDone
  \/ FaceInferDone(FALSE, <<>>, 0)
  \/ \E detectedFaces \in {r \in FaceModelResults : Len(r) <= 1} :
       FaceInferDone(TRUE, detectedFaces, 0)
  \/ \E ok \in BOOLEAN : LandmarkBackendDone(ok)
  \/ \E ok \in BOOLEAN : LandmarkCreateDone(ok)
  \/ LandmarkInferDone(FALSE, <<>>, 0)
  \/ \E meshes \in {m \in LandmarkModelResults : Len(m) <= 1} :
       LandmarkInferDone(TRUE, meshes, 0)
  \/ \E ok \in BOOLEAN : WarmFaceBackendDone(ok)
  \/ \E ok \in BOOLEAN : WarmFaceCreateDone(ok)
  \/ WarmFaceModelWarmupDone
  \/ \E ok \in BOOLEAN : WarmFaceEstimateDone(ok)
  \/ \E ok \in BOOLEAN : WarmLandmarkBackendDone(ok)
  \/ \E ok \in BOOLEAN : WarmLandmarkCreateDone(ok)
  \/ \E ok \in BOOLEAN : WarmLandmarkEstimateDone(ok)
  \/ WarmupJoin
  \/ Settle

SpecInFlight == Init /\ [][NextInFlight]_vars

(***************************************************************************)
(* FaceAPI.updateOptions() while a call is in flight                       *)
(***************************************************************************)
\* FaceAPI.updateOptions(options) called by the user while a detection or a
\* warmup is suspended at an await: updateOptions is synchronous and does
\* not touch the call
UpdateOptionsInFlight(options) ==
  LET r == FaceAPIUpdateOptions(api, fd, ld, options)
  IN  /\ call.pc \notin {"idle", "done"}
      /\ api' = r.api
      /\ fd' = r.fd
      /\ ld' = r.ld
      /\ UNCHANGED <<hasDocument, facade, call, obs>>

NextUpdateInFlight ==
  \/ InFlightDetect
  \/ Warmup
  \/ \E options \in OptionsPool : UpdateOptionsInFlight(options)
  \/ \E options \in OptionsPool : UpdateOptions(options)
  \/ \E ok \in BOOLEAN : FaceBackendDone(ok)
  \/ \E ok \in BOOLEAN : FaceCreateDone(ok)
  \/ FaceWarmupDone
  \/ FaceInferDone(FALSE, <<>>, 0)
  \/ \E detectedFaces \in {r \in FaceModelResults : Len(r) <= 1} :
       FaceInferDone(TRUE, detectedFaces, 0)
  \/ \E ok \in BOOLEAN : LandmarkBackendDone(ok)
  \/ \E ok \in BOOLEAN : LandmarkCreateDone(ok)
  \/ LandmarkInferDone(FALSE, <<>>, 0)
  \/ \E meshes \in {m \in LandmarkModelResults : Len(m) <= 1} :
       LandmarkInferDone(TRUE, meshes, 0)
  \/ \E ok \in BOOLEAN : WarmFaceBackendDone(ok)
  \/ \E ok \in BOOLEAN : WarmFaceCreateDone(ok)
  \/ WarmFaceModelWarmupDone
  \/ \E ok \in BOOLEAN : WarmFaceEstimateDone(ok)
  \/ \E ok \in BOOLEAN : WarmLandmarkBackendDone(ok)
  \/ \E ok \in BOOLEAN : WarmLandmarkCreateDone(ok)
  \/ \E ok \in BOOLEAN : WarmLandmarkEstimateDone(ok)
  \/ WarmupJoin
  \/ Settle

SpecUpdateInFlight == Init /\ [][NextUpdateInFlight]_vars

(***************************************************************************)
(* The mediapipeFace facade and its cached FaceAPI                         *)
(***************************************************************************)
\* new FaceAPI(...) as the facade sees it: disposed or not
FacadeInstance == [isDisposed |-> FALSE]

\* ensureAPI constructing an instance whether or not one is cached
ensureAPI_AlwaysConstructs(f, hasOptions) ==
  [f EXCEPT !.instances = Append(@, FacadeInstance),
            !.cachedAPI = Some(Len(f.instances) + 1),
            !.built = @ + 1]

\* ensureAPI(options) after await initBackend(): the instance is constructed
\* if none is cached; otherwise it is given the options, which leaves
\* cachedAPI and whether the instance is disposed as they are
ensureAPI(f, hasOptions) ==
  IF f.cachedAPI = None
  THEN [f EXCEPT !.instances = Append(@, FacadeInstance),
                 !.cachedAPI = Some(Len(f.instances) + 1),
                 !.built = @ + 1]
  ELSE f

\* mediapipeFace.detectFaces, detectFacesWithLandmarks or initialize called,
\* the three of them starting with const api = await ensureAPI(options):
\* ensureAPI runs up to the await inside initBackend
FacadeStart(k, hasOptions) ==
  /\ facade.calls[k].pc = "idle"
  /\ Len(facade.instances) < MaxFacadeInstances
  /\ facade' = [facade EXCEPT !.calls[k] =
                  [FacadeIdle EXCEPT !.pc = "initBackend",
                                     !.hasOptions = hasOptions]]
  /\ UNCHANGED <<hasDocument, api, fd, ld, call, obs>>

\* initTensorflowBackend settles (initBackend catches its failure) and
\* ensureAPI runs to its return, where the options are last read;
\* cachedAPI.updateOptions throws on a disposed instance
FacadeInitBackendDone(k) ==
  LET c == [facade.calls[k] EXCEPT !.hasOptions = FALSE]
      f == ensureAPI(facade, facade.calls[k].hasOptions)
  IN  /\ c.pc = "initBackend"
      /\ facade' =
           IF /\ facade.cachedAPI /= None /\ facade.calls[k].hasOptions
              /\ facade.instances[Get(facade.cachedAPI)].isDisposed
           THEN [facade EXCEPT !.calls[k] = [c EXCEPT !.pc = "done", !.outcome = "error"]]
           ELSE [f EXCEPT !.calls[k] = [c EXCEPT !.pc = "ensured", !.api = f.cachedAPI]]
      /\ UNCHANGED <<hasDocument, api, fd, ld, call, obs>>

\* const api = await ensureAPI(options) resumes and the method of the
\* instance is called (detectFaces, detectFacesWithLandmarks or warmup),
\* whose validateDisposed throws on a disposed instance
FacadeCallAPI(k) ==
  LET c == facade.calls[k]
  IN  /\ c.pc = "ensured"
      /\ facade' = [facade EXCEPT !.calls[k] =
                      IF facade.instances[Get(c.api)].isDisposed
                      THEN [c EXCEPT !.pc = "done", !.outcome = "error"]
                      ELSE [c EXCEPT !.pc = "running"]]
      /\ UNCHANGED <<hasDocument, api, fd, ld, call, obs>>

\* the method of the instance settles and the facade call with it
FacadeAPIDone(k, ok) ==
  LET c == facade.calls[k]
  IN  /\ c.pc = "running"
      /\ facade' = [facade EXCEPT !.calls[k] =
                      [c EXCEPT !.pc = "done",
                                !.outcome = IF ok THEN "ok" ELSE "error"]]
      /\ UNCHANGED <<hasDocument, api, fd, ld, call, obs>>

\* the caller has received the outcome of the facade call
FacadeReturn(k) ==
  /\ facade.calls[k].pc = "done"
  /\ facade' = [facade EXCEPT !.calls[k] = FacadeIdle]
  /\ UNCHANGED <<hasDocument, api, fd, ld, call, obs>>

\* dispose() keeping the disposed instance in the cache
mediapipeFaceDispose_KeepsCache(f) ==
  IF f.cachedAPI /= None
  THEN [f EXCEPT !.instances[Get(f.cachedAPI)].isDisposed = TRUE]
  ELSE f

\* mediapipeFace.dispose(): cachedAPI.dispose(); cachedAPI = null
mediapipeFaceDispose(f) ==
  IF f.cachedAPI /= None
  THEN [f EXCEPT !.instances[Get(f.cachedAPI)].isDisposed = TRUE,
                 !.cachedAPI = None]
  ELSE f

\* mediapipeFace.dispose() called by the user, at any point of the calls in
\* flight
FacadeDispose ==
  /\ facade.disposes < MaxFacadeDisposes
  /\ facade' = [mediapipeFaceDispose(facade) EXCEPT
                  !.disposes = @ + 1,
                  !.built = 0,
                  !.calls = [k \in 1..MaxFacadeCalls |->
                               IF @[k].pc = "idle" THEN @[k]
                               ELSE [@[k] EXCEPT !.disturbed = TRUE]]]
  /\ UNCHANGED <<hasDocument, api, fd, ld, call, obs>>

NextFacade ==
  \/ \E k \in 1..MaxFacadeCalls, hasOptions \in BOOLEAN : FacadeStart(k, hasOptions)
  \/ \E k \in 1..MaxFacadeCalls : FacadeInitBackendDone(k)
  \/ \E k \in 1..MaxFacadeCalls : FacadeCallAPI(k)
  \/ \E k \in 1..MaxFacadeCalls, ok \in BOOLEAN : FacadeAPIDone(k, ok)
  \/ \E k \in 1..MaxFacadeCalls : FacadeReturn(k)
  \/ FacadeDispose

SpecFacade == Init /\ [][NextFacade]_vars

(***************************************************************************)
(* Detections under every downscale threshold                              *)
(***************************************************************************)
\* options that set downscaleWidthThreshold, alone and together with a
\* field the adapters read
ThresholdOptionsPool ==
  {Opt1("downscaleWidthThreshold", 0),
   Opt1("downscaleWidthThreshold", 320),
   [Opt1("downscaleWidthThreshold", 320) EXCEPT !.maxFaces = Some(1)],
   [Opt1("downscaleWidthThreshold", 0) EXCEPT !.scoreThreshold = Some(Rat(7, 10))]}

\* detectFaces or detectFacesWithLandmarks called with such options or none
ThresholdDetect ==
  \E op \in {"detectFaces", "detectFacesWithLandmarks"}, input \in InputPool,
     optionsArg \in {None} \cup {Some(o) : o \in ThresholdOptionsPool},
     ctx2d \in BOOLEAN :
    BeginDetect(op, input, optionsArg, ctx2d)

NextThreshold ==
  \/ ThresholdDetect
  \/ \E options \in ThresholdOptionsPool : UpdateOptions(options)
  \/ \E ok \in BOOLEAN : FaceBackendDone(ok)
  \/ \E ok \in BOOLEAN : FaceCreateDone(ok)
  \/ FaceWarmupDone
  \/ FaceInferDone(FALSE, <<>>, 0)
  \/ \E detectedFaces \in {r \in FaceModelResults : Len(r) <= 1} :
       FaceInferDone(TRUE, detectedFaces, 0)
  \/ \E ok \in BOOLEAN : LandmarkBackendDone(ok)
  \/ \E ok \in BOOLEAN : LandmarkCreateDone(ok)
  \/ LandmarkInferDone(FALSE, <<>>, 0)
  \/ \E meshes \in {m \in LandmarkModelResults : Len(m) <= 1} :
       LandmarkInferDone(TRUE, meshes, 0)
  \/ Settle

SpecThreshold == Init /\ [][NextThreshold]_vars

(***************************************************************************)
(* Detections with landmarks whose model construction can fail             *)
(***************************************************************************)
\* detectFacesWithLandmarks(canvas) without options
RetryDetect ==
  BeginDetect("detectFacesWithLandmarks", MediaInput("canvas", 640, 480), None, TRUE)

\* the face model always answers with one face, so that every call reaches
\* the landmark adapter once the face model is built; either model's
\* construction can fail
NextRetry ==
  \/ RetryDetect
  \/ \E ok \in BOOLEAN : FaceBackendDone(ok)
  \/ \E ok \in BOOLEAN : FaceCreateDone(ok)
  \/ FaceWarmupDone
  \/ \E detectedFaces \in {r \in FaceModelResults : Len(r) = 1} :
       FaceInferDone(TRUE, detectedFaces, 0)
  \/ \E ok \in BOOLEAN : LandmarkBackendDone(ok)
  \/ \E ok \in BOOLEAN : LandmarkCreateDone(ok)
  \/ LandmarkInferDone(FALSE, <<>>, 0)
  \/ \E meshes \in {m \in LandmarkModelResults : Len(m) <= 1} :
       LandmarkInferDone(TRUE, meshes, 0)
  \/ Settle

SpecRetry == Init /\ [][NextRetry]_vars

(***************************************************************************)
(* FaceDetector.mapDetectedFaces over every shape of raw detection         *)
(***************************************************************************)
\* the boxes of the raw detections: a valid one, one without width, one of
\* negative height, and two with a field that is not a number
ScoreBoxPool ==
  {[xMin |-> Int2Rat(20), yMin |-> Int2Rat(30), width |-> Int2Rat(40), height |-> Int2Rat(40)],
   [xMin |-> Int2Rat(20), yMin |-> Int2Rat(30), width |-> Zero, height |-> Int2Rat(40)],
   [xMin |-> Int2Rat(20), yMin |-> Int2Rat(30), width |-> Int2Rat(40), height |-> Int2Rat(-5)],
   [xMin |-> Undefined, yMin |-> Int2Rat(30), width |-> Int2Rat(40), height |-> Int2Rat(40)],
   [xMin |-> Int2Rat(20), yMin |-> Int2Rat(30), width |-> Int2Rat(40), height |-> Undefined]}

\* the raw detections: every combination of an absent, a non-positive and a
\* positive value in each place the score is looked for
ScoredFacePool ==
  {[box |-> box, score |-> score, confidence |-> confidence, keypoints |-> keypoints,
    probability |-> probability, trackingID |-> None] :
     box \in ScoreBoxPool,
     score \in {None, Some(Zero), Some(Rat(-1, 2)), Some(Rat(6, 10))},
     confidence \in {None, Some(Zero), Some(Rat(1, 2))},
     keypoints \in {<<>>, <<None, None>>, <<Some(Rat(3, 10))>>,
                    <<Some(Zero), Some(Rat(2, 10)), None, Some(Rat(4, 10))>>},
     probability \in {None, Some(Zero), Some(Rat(7, 10))}}

\* mapDetectedFaces applied to what one estimateFaces call returned
MapDetectedFaces ==
  \E face \in ScoredFacePool :
    /\ call.pc = "idle"
    /\ call' = Settled([IdleCall EXCEPT !.op = "mapDetectedFaces",
                                        !.rawFaces = <<face>>,
                                        !.result = [faces |-> mapDetectedFaces(<<face>>),
                                                    timing |-> NoTiming]],
                       <<>>)
    /\ UNCHANGED <<hasDocument, facade, api, fd, ld, obs>>

NextScore ==
  \/ MapDetectedFaces
  \/ Settle

SpecScore == Init /\ [][NextScore]_vars

(***************************************************************************)
(* initTensorflowBackend                                                   *)
(***************************************************************************)
\* how a call of tf.setBackend can settle: it resolves to true, it resolves
\* to false (the backend could not be initialised), or it rejects
SetBackendOutcomes == {"true", "false", "throws"}

\* how loading @tensorflow/tfjs-react-native can go: the module's ready()
\* resolves, the import fails, the module has no ready(), ready() rejects
ReactNativeOutcomes == {"ready", "importFails", "noReady", "readyRejects"}

\* what the packages and the engine do in one call of initTensorflowBackend
\* in each environment; the places an environment does not reach are fixed
BackendOutcomes(environment) ==
  LET all == [importWebgl : BOOLEAN, requireNode : BOOLEAN, reactNative : ReactNativeOutcomes,
              setWebgl : SetBackendOutcomes, importCpu : BOOLEAN,
              setCpu : SetBackendOutcomes, setCpuRetry : SetBackendOutcomes]
  IN  {ext \in all :
         /\ environment /= "browser" => ext.importWebgl /\ ext.setWebgl = "true"
         /\ environment /= "node" => ext.requireNode /\ ext.setCpuRetry = "true"
         /\ environment /= "react-native" => ext.reactNative = "ready"}

\* loadBackend(backend): true when the backend is in loadedBackends or its
\* package loads, false otherwise; it never throws
loadBackend(tf, backend, loads) ==
  IF backend \in tf.loadedBackends THEN [ok |-> TRUE, tf |-> tf]
  ELSE IF loads
  THEN [ok |-> TRUE, tf |-> [tf EXCEPT !.loadedBackends = @ \cup {backend}]]
  ELSE [ok |-> FALSE, tf |-> tf]

\* await tf.setBackend(name): the backend is active when it resolved to true
setBackend(tf, name, outcome) ==
  [threw |-> outcome = "throws",
   tf |-> IF outcome = "true" THEN [tf EXCEPT !.backend = Some(name)] ELSE tf]

\* await loadBackend('cpu'); await tf.setBackend('cpu')
cpuFallback(tf, loads, outcome) ==
  setBackend(loadBackend(tf, "cpu", loads).tf, "cpu", outcome)

\* initTensorflowBackend(environment): the engine afterwards and whether an
\* error was raised
initTensorflowBackend(tf, environment, ext) ==
  IF IsSome(tf.backend) THEN [tf |-> tf, threw |-> FALSE]
  ELSE IF environment = "node"
  THEN LET node == loadBackend(tf, "node", ext.requireNode)
           cpu == cpuFallback(node.tf, ext.importCpu, ext.setCpu)
           retry == cpuFallback(cpu.tf, ext.importCpu, ext.setCpuRetry)
       IN  IF node.ok
           THEN [tf |-> [node.tf EXCEPT !.backend = Some("tensorflow")], threw |-> FALSE]
           ELSE IF ~ cpu.threw THEN [tf |-> cpu.tf, threw |-> FALSE]
           ELSE [tf |-> retry.tf, threw |-> retry.threw]
  ELSE IF environment = "react-native"
  THEN IF ext.reactNative = "ready"
       THEN [tf |-> [tf EXCEPT !.backend = Some("rn-webgl")], threw |-> FALSE]
       ELSE LET cpu == cpuFallback(tf, ext.importCpu, ext.setCpu)
            IN  [tf |-> cpu.tf, threw |-> cpu.threw]
  ELSE LET webgl == loadBackend(tf, "webgl", ext.importWebgl)
           set == setBackend(webgl.tf, "webgl", ext.setWebgl)
           cpu == cpuFallback(IF webgl.ok THEN set.tf ELSE webgl.tf,
                              ext.importCpu, ext.setCpu)
       IN  IF webgl.ok /\ ~ set.threw
           THEN [tf |-> set.tf, threw |-> FALSE]
           ELSE [tf |-> cpu.tf, threw |-> cpu.threw]

\* initTensorflowBackend(environment) called and settled
InitTensorflowBackend ==
  \E environment \in {"browser", "node", "react-native"} :
    \E ext \in BackendOutcomes(environment) :
      LET r == initTensorflowBackend(obs.tf, environment, ext)
      IN  /\ call.pc = "idle"
          /\ call' = Settled([IdleCall EXCEPT !.op = "initTensorflowBackend",
                                              !.utilArgs = <<environment, ext, obs.tf>>],
                             IF r.threw THEN NativeError ELSE <<>>)
          /\ obs' = [obs EXCEPT !.tf = r.tf]
          /\ UNCHANGED <<hasDocument, facade, api, fd, ld>>

NextBackend ==
  \/ InitTensorflowBackend
  \/ Settle

SpecBackend == Init /\ [][NextBackend]_vars

(***************************************************************************)
(* ImageUtils called directly                                              *)
(***************************************************************************)
\* the images downscaleImage is given
ElementPool ==
  {MediaInput("image", 1280, 720),
   MediaInput("video", 960, 540),
   MediaInput("canvas", 640, 480),
   MediaInput("canvas", 4, 2),
   MediaInput("image", 3, 5)}

\* the target widths downscaleImage is given: whole and fractional numbers
\* of pixels
TargetWidthPool ==
  {Int2Rat(1), Int2Rat(2), Int2Rat(3), Int2Rat(4), Int2Rat(640), Int2Rat(1280),
   Rat(1, 2), Rat(5, 2), Rat(1281, 2)}

\* ImageUtils.downscaleImage(element, targetWidth) called and settled
DownscaleImage ==
  \E element \in ElementPool, targetWidth \in TargetWidthPool, ctx2d \in BOOLEAN :
    LET d == downscaleImage(element, targetWidth, hasDocument, ctx2d)
    IN  /\ call.pc = "idle"
        /\ call' = Settled([IdleCall EXCEPT !.op = "downscaleImage",
                                            !.input = element,
                                            !.utilArgs = <<targetWidth>>,
                                            !.processedInput = d.downscaledCanvas,
                                            !.scaleFactor = d.scaleFactor],
                           IF d.ok THEN <<>> ELSE NativeError)
        /\ UNCHANGED <<hasDocument, facade, api, fd, ld, obs>>

\* the canvases and boxes cropFace is given: boxes inside the canvas, across
\* each edge, outside it, with fractional coordinates
CropCanvasPool == {MediaInput("canvas", 640, 480), MediaInput("canvas", 100, 100)}

Box(x, y, width, height) == [x |-> x, y |-> y, width |-> width, height |-> height]

BoxPool ==
  {Box(Int2Rat(20), Int2Rat(30), Int2Rat(40), Int2Rat(40)),
   Box(Int2Rat(0), Int2Rat(0), Int2Rat(100), Int2Rat(100)),
   Box(Int2Rat(-10), Int2Rat(5), Int2Rat(50), Int2Rat(20)),
   Box(Int2Rat(2), Int2Rat(-3), Int2Rat(30), Int2Rat(30)),
   Box(Int2Rat(80), Int2Rat(90), Int2Rat(40), Int2Rat(40)),
   Box(Int2Rat(700), Int2Rat(500), Int2Rat(10), Int2Rat(10)),
   Box(Rat(67, 2), Rat(41, 3), Rat(101, 4), Rat(77, 5))}

MarginPool == {Int2Rat(0), Rat(1, 10), Rat(1, 2)}

\* ImageUtils.cropFace(canvas, box, margin) called and settled;
\* document.createElement throws where there is no document
CropFace ==
  \E canvas \in CropCanvasPool, box \in BoxPool, margin \in MarginPool :
    /\ call.pc = "idle"
    /\ call' = IF hasDocument
               THEN Settled([IdleCall EXCEPT !.op = "cropFace",
                                             !.input = canvas,
                                             !.utilArgs = <<box, margin>>,
                                             !.crop = cropFace(canvas, box, margin)], <<>>)
               ELSE Settled([IdleCall EXCEPT !.op = "cropFace",
                                             !.input = canvas,
                                             !.utilArgs = <<box, margin>>], NativeError)
    /\ UNCHANGED <<hasDocument, facade, api, fd, ld, obs>>

NextUtils ==
  \/ DownscaleImage
  \/ CropFace
  \/ Settle

SpecUtils == Init /\ [][NextUtils]_vars

(***************************************************************************)
(* updateOptions over every kind of option                                 *)
(***************************************************************************)
\* the options updateOptions is called with: those of OptionsPool and
\* options that set a field BaseDetector.updateOptions does not compare
UpdateOptionsPool ==
  OptionsPool \cup {Opt1("runtime", "mediapipe"),
                    Opt1("downscaleWidthThreshold", 320),
                    Opt1("enableTracking", FALSE),
                    Opt1("environment", "node")}

NextOptions ==
  \/ \E options \in UpdateOptionsPool : UpdateOptions(options)
  \/ Dispose
  \/ Settle

SpecOptions == Init /\ [][NextOptions]_vars

(***************************************************************************)
(* Properties                                                              *)
(***************************************************************************)
DetectOps == {"detectFaces", "detectFacesWithLandmarks"}

\* the settled call is a detection that returned a result
Returned(op) == call.op = op /\ call.pc = "done" /\ call.outcome = "ok"

\* C1: on a disposed FaceAPI every call of detectFaces,
\* detectFacesWithLandmarks or updateOptions fails with an error whose
\* code is RESOURCE_DISPOSED, and invokes no inference of either adapter.
C1_DisposedCallFailsResourceDisposed ==
  (call.disposedAtStart /\ call.op \in DetectOps \cup {"updateOptions"})
    => /\ call.pc = "done"
       /\ call.outcome = "error"
       /\ Head(call.error) = RESOURCE_DISPOSED
       /\ call.faceEstimates = 0
       /\ call.landmarkEstimates = 0
       /\ call.landmarkCalls = 0

\* C2: FaceAPI.dispose() is idempotent: every dispose() call returns
\* without an error and leaves each adapter's dispose invoked exactly once
\* in total; a dispose() call on a disposed instance changes nothing of the
\* instance or its adapters.
C2_DisposeIdempotent ==
  [][obs'.disposeCalls = obs.disposeCalls + 1
       => /\ call'.op = "dispose" /\ call'.pc = "done" /\ call'.outcome = "ok"
          /\ obs'.faceDetectorDispose = 1
          /\ obs'.landmarkDetectorDispose = 1
          /\ obs'.faceModelDispose <= 1
          /\ obs'.landmarkModelDispose <= 1
          /\ api'.isDisposed /\ fd'.isDisposed /\ ld'.isDisposed
          /\ fd'.detector = None /\ ld'.detector = None
          /\ (obs.disposeCalls >= 1 =>
                /\ api' = api /\ fd' = fd /\ ld' = ld
                /\ obs'.faceModelDispose = obs.faceModelDispose
                /\ obs'.landmarkModelDispose = obs.landmarkModelDispose)]_vars

\* C2 witness: a second dispose() has returned on an instance whose face
\* model had been loaded and released by the first
C2_Witness_SecondDispose ==
  /\ call.op = "dispose" /\ call.pc = "done" /\ call.disposedAtStart
  /\ obs.disposeCalls >= 2
  /\ obs.faceModelDispose = 1

\* C3: when the face adapter returns zero faces, detectFacesWithLandmarks
\* does not call the landmark adapter at all and returns an empty face list
\* with the face adapter's timing and the time elapsed so far as total.
C3_ZeroFacesSkipLandmarks ==
  (call.op = "detectFacesWithLandmarks" /\ call.faceReturned /\ call.rawFaces = <<>>)
    => /\ call.landmarkCalls = 0
       /\ call.landmarkEstimates = 0
       /\ call.landmarkCreates = 0
       /\ call.pc = "done"
       /\ call.outcome = "ok"
       /\ call.result.faces = <<>>
       /\ call.result.timing = [total |-> call.clock,
                                preprocessing |-> call.preprocessingTime,
                                inference |-> call.clock - call.preprocessingTime,
                                postprocessing |-> 0]

\* C3 witness: a detectFacesWithLandmarks call whose face inference took
\* time and found no face has returned
C3_Witness_ZeroFaces ==
  /\ Returned("detectFacesWithLandmarks")
  /\ call.faceReturned /\ call.rawFaces = <<>>
  /\ call.clock > 0

\* the factor of the frame handed to the face adapter: its width over the
\* width of the caller's image
frameScale == Rat(call.processedInput.width, call.input.width)

\* a box of the face model, on a frame scaled by f, in the original image
BoxInOriginal(rawBox, f) ==
  [x |-> Rat(rawBox.xMin.n * f.d, rawBox.xMin.d * f.n),
   y |-> Rat(rawBox.yMin.n * f.d, rawBox.yMin.d * f.n),
   width |-> Rat(rawBox.width.n * f.d, rawBox.width.d * f.n),
   height |-> Rat(rawBox.height.n * f.d, rawBox.height.d * f.n)]

\* the depth of a keypoint of the landmark model, 0 when it carries none
RawZ(kp) == IF IsSome(kp.z) THEN Get(kp.z) ELSE Zero

\* a keypoint of the landmark model, on a frame scaled by f, in the original image
PointInOriginal(kp, f) ==
  [x |-> Rat(kp.x.n * f.d, kp.x.d * f.n), y |-> Rat(kp.y.n * f.d, kp.y.d * f.n),
   z |-> RawZ(kp)]

\* the i-th face of the face model as the i-th detection in the original image
DetectionInOriginal(i) ==
  [score |-> extractScore(call.rawFaces[i]),
   box |-> BoxInOriginal(call.rawFaces[i].box, frameScale)]

\* the i-th keypoint list of the landmark model as mesh points in the
\* original image, the empty list when the model returned fewer lists
MeshInOriginal(i) ==
  IF i <= Len(call.rawLandmarks)
  THEN [j \in 1..Len(call.rawLandmarks[i]) |-> PointInOriginal(call.rawLandmarks[i][j], frameScale)]
  ELSE <<>>

\* the landmark cap was 1 when the call chose its path
CapIsOne == call.landmarkCap = Some(1)

\* C4: when the single-face path does not apply (the landmark cap is not
\* 1, or exactly one face was detected), the result has one entry per
\* detection in detector order, the i-th being the i-th detection with the
\* i-th landmark set, and an empty meshPoints list where there is no i-th set.
C4_PositionalFusion ==
  (Returned("detectFacesWithLandmarks") /\ Len(call.rawFaces) >= 1
     /\ (~ CapIsOne \/ Len(call.rawFaces) = 1))
    => /\ Len(call.result.faces) = Len(call.rawFaces)
       /\ \A i \in 1..Len(call.rawFaces) :
            /\ i <= Len(call.result.faces)
            /\ call.result.faces[i].detection = DetectionInOriginal(i)
            /\ call.result.faces[i].trackingID = call.rawFaces[i].trackingID
            /\ call.result.faces[i].landmarks.meshPoints = MeshInOriginal(i)

\* C4 witness: three detections on a downscaled frame fused with two
\* landmark sets, the third detection left with no mesh points
C4_Witness_MissingLandmarkSet ==
  /\ Returned("detectFacesWithLandmarks")
  /\ ~ CapIsOne
  /\ Len(call.rawFaces) = 3 /\ Len(call.rawLandmarks) = 2
  /\ call.scaleFactor /= One
  /\ call.result.faces[3].landmarks.meshPoints = <<>>
  /\ call.result.faces[2].landmarks.meshPoints /= <<>>

\* C5: a result of detectFacesWithLandmarks never has more faces than the
\* face adapter returned for that call.
C5_FusionAddsNoDetection ==
  Returned("detectFacesWithLandmarks")
    => Len(call.result.faces) <= Len(call.rawFaces)

\* C5 witness: a call has returned for which the landmark adapter gave
\* more sets than the face adapter gave faces
C5_Witness_MoreLandmarkSetsThanFaces ==
  /\ Returned("detectFacesWithLandmarks")
  /\ Len(call.rawFaces) = 1
  /\ Len(call.rawLandmarks) = 2
  /\ Len(call.result.faces) = 1

\* the area of the i-th face of the face model
RawArea(i) == RMul(call.rawFaces[i].box.width, call.rawFaces[i].box.height)

\* the i-th face has the largest area and is the earliest with that area
LargestEarliest(i) ==
  \A j \in 1..Len(call.rawFaces) :
    /\ RLeq(RawArea(j), RawArea(i))
    /\ j < i => RLess(RawArea(j), RawArea(i))

\* C6: with more than one face detected and a landmark cap of exactly 1
\* the result has exactly one face, the detection of the largest box area,
\* the earliest in detector order among equal areas, whatever the scores.
C6_SingleFaceLargestArea ==
  (Returned("detectFacesWithLandmarks") /\ Len(call.rawFaces) > 1 /\ CapIsOne)
    => /\ Len(call.result.faces) = 1
       /\ \E i \in 1..Len(call.rawFaces) :
            /\ LargestEarliest(i)
            /\ call.result.faces[1].detection = DetectionInOriginal(i)
            /\ call.result.faces[1].trackingID = call.rawFaces[i].trackingID

\* C6 witness: the single-face path has returned the largest of three
\* faces although another face has a higher score and comes first
C6_Witness_LargestNotBestScore ==
  /\ Returned("detectFacesWithLandmarks") /\ CapIsOne
  /\ Len(call.rawFaces) = 3
  /\ Len(call.result.faces) = 1
  /\ RLess(call.result.faces[1].detection.score, extractScore(call.rawFaces[1]))
  /\ RLess(RawArea(1), boxArea(call.result.faces[1]))

\* the box of the spec's example on the downscaled frame, and in the original
ExampleRawBox ==
  [xMin |-> Int2Rat(200), yMin |-> Int2Rat(100), width |-> Int2Rat(100), height |-> Int2Rat(100)]

ExampleReportedBox ==
  [x |-> Int2Rat(400), y |-> Int2Rat(200), width |-> Int2Rat(200), height |-> Int2Rat(200)]

\* C7: every box of a result is the face model's box divided by the scale
\* factor f of the frame the model saw (x/f, y/f, width/f, height/f), and
\* is the face model's box itself when f = 1; detectFaces and the
\* multi-face path report the boxes in detector order.
C7_BoxesInOriginalCoordinates ==
  /\ Returned("detectFaces")
       => /\ Len(call.result.faces) = Len(call.rawFaces)
          /\ \A i \in 1..Len(call.rawFaces) :
               /\ i <= Len(call.result.faces)
               /\ call.result.faces[i].detection.box
                    = BoxInOriginal(call.rawFaces[i].box, frameScale)
               /\ frameScale = One =>
                    /\ call.result.faces[i].detection.box.x = call.rawFaces[i].box.xMin
                    /\ call.result.faces[i].detection.box.y = call.rawFaces[i].box.yMin
                    /\ call.result.faces[i].detection.box.width = call.rawFaces[i].box.width
                    /\ call.result.faces[i].detection.box.height = call.rawFaces[i].box.height
  /\ Returned("detectFacesWithLandmarks")
       => \A k \in 1..Len(call.result.faces) :
            \E i \in 1..Len(call.rawFaces) :
              /\ Len(call.result.faces) = Len(call.rawFaces) => i = k
              /\ call.result.faces[k].detection.box
                   = BoxInOriginal(call.rawFaces[i].box, frameScale)

\* C7 witness: the spec's example, an image 1280 wide under a threshold
\* of 640, the box {200,100,100,100} reported as {400,200,200,200}
C7_Witness_SpecExample ==
  /\ Returned("detectFaces")
  /\ call.input.width = 1280
  /\ api.options.downscaleWidthThreshold = Some(640)
  /\ call.scaleFactor = Rat(1, 2)
  /\ \E i \in 1..Len(call.rawFaces) :
       /\ call.rawFaces[i].box = ExampleRawBox
       /\ call.result.faces[i].detection.box = ExampleReportedBox

\* the crop path applies: single-face path, a document, an HTML input
CropCase ==
  /\ Len(call.rawFaces) > 1 /\ CapIsOne
  /\ hasDocument
  /\ call.input.kind \in {"image", "video", "canvas"}

\* the minimum and the maximum of two rationals, from their cross products
LesserOf(a, b) == IF a.n * b.d <= b.n * a.d THEN a ELSE b

GreaterOf(a, b) == IF a.n * b.d <= b.n * a.d THEN b ELSE a

\* C8: the mesh points of a result are in original-image coordinates with
\* z as the landmark model gave it.  On the crop path the landmark adapter
\* saw the region of the original image at the selected face's reported
\* box, zero margin, and each point is (x + offsetX, y + offsetY, z); on
\* every other path each point is (x / f, y / f, z), the model's own
\* coordinates when f = 1.
C8_MeshPointsInOriginalCoordinates ==
  (Returned("detectFacesWithLandmarks") /\ Len(call.rawFaces) >= 1)
    => IF CropCase
       THEN LET box == call.result.faces[1].detection.box
                offsetX == GreaterOf(Zero, box.x)
                offsetY == GreaterOf(Zero, box.y)
                cropWidth == LesserOf(RSub(Int2Rat(call.input.width), offsetX), box.width)
                cropHeight == LesserOf(RSub(Int2Rat(call.input.height), offsetY), box.height)
            IN  /\ call.crop = [cropWidth |-> cropWidth, cropHeight |-> cropHeight,
                                offsetX |-> offsetX, offsetY |-> offsetY]
                /\ call.landmarkInput.kind = "canvas"
                /\ call.landmarkInput.width = canvasDimension(cropWidth)
                /\ call.landmarkInput.height = canvasDimension(cropHeight)
                /\ Len(call.result.faces) = 1
                /\ call.result.faces[1].landmarks.meshPoints
                     = IF call.rawLandmarks = <<>> THEN <<>>
                       ELSE [j \in 1..Len(call.rawLandmarks[1]) |->
                               [x |-> RAdd(call.rawLandmarks[1][j].x, offsetX),
                                y |-> RAdd(call.rawLandmarks[1][j].y, offsetY),
                                z |-> RawZ(call.rawLandmarks[1][j])]]
       ELSE /\ call.landmarkInput = call.processedInput
            /\ \A k \in 1..Len(call.result.faces) :
                 /\ call.result.faces[k].landmarks.meshPoints = MeshInOriginal(k)
                 /\ (frameScale = One /\ k <= Len(call.rawLandmarks)) =>
                      \A j \in 1..Len(call.rawLandmarks[k]) :
                        /\ j <= Len(call.result.faces[k].landmarks.meshPoints)
                        /\ call.result.faces[k].landmarks.meshPoints[j].x = call.rawLandmarks[k][j].x
                        /\ call.result.faces[k].landmarks.meshPoints[j].y = call.rawLandmarks[k][j].y

\* C8 witness: the crop path has returned for a downscaled image, the
\* points shifted by a positive offset and carrying a non-zero depth
C8_Witness_CropPathOffsets ==
  /\ Returned("detectFacesWithLandmarks") /\ CropCase
  /\ call.scaleFactor /= One
  /\ RLess(Zero, call.crop.offsetX) /\ RLess(Zero, call.crop.offsetY)
  /\ call.rawLandmarks /= <<>>
  /\ \E j \in 1..Len(call.result.faces[1].landmarks.meshPoints) :
       /\ call.result.faces[1].landmarks.meshPoints[j].z /= Zero
       /\ call.result.faces[1].landmarks.meshPoints[j].x
            = RAdd(call.rawLandmarks[1][j].x, call.crop.offsetX)

\* an options argument that validateOptions rejects
InvalidOptions(optionsArg) == IsSome(optionsArg) /\ ~ validateOptions(Get(optionsArg))

\* C9: a scoreThreshold outside [0, 1] or a maxFaces below 1, given to the
\* constructor, to updateOptions or as per-call options, fails validation
\* before any inference, and the persisted configuration never holds such
\* a value.
C9_InvalidOptionsRejected ==
  /\ validateOptions(api.options)
  /\ (call.op \in DetectOps \cup {"updateOptions"} /\ ~ call.disposedAtStart
        /\ InvalidOptions(call.optionsArg))
       => /\ call.pc = "done"
          /\ call.outcome = "error"
          /\ call.faceEstimates = 0
          /\ call.landmarkEstimates = 0

\* C10: a detection called with null, undefined or an object of an
\* unsupported type fails with INVALID_INPUT before any inference.
C10_InvalidInputFailsInvalidInput ==
  (call.op \in DetectOps /\ ~ call.disposedAtStart
     /\ call.input.kind \in {"null", "object"})
    => /\ call.pc = "done"
       /\ call.outcome = "error"
       /\ Head(call.error) = INVALID_INPUT
       /\ call.faceEstimates = 0
       /\ call.landmarkEstimates = 0

\* the steps of the detection pipeline proper, and those of model loading
PipelineSteps == {"downscale", "faceEstimate", "landmarkEstimate"}

LoadSteps == {"faceBackend", "faceCreate", "landmarkBackend", "landmarkCreate"}

\* the last error of a chain of causes
Innermost(error) == error[Len(error)]

\* C11: a detection call in which a step of the pipeline (downscale,
\* inference) threw something that is not a typed detection error ends with
\* a DETECTION_FAILED error whose chain of causes ends in what was thrown,
\* and the failure leaves the instance Ready.
C11_PipelineExceptionWrapped ==
  (call.op \in DetectOps /\ call.pc = "done"
     /\ call.raised /= {} /\ call.raised \subseteq PipelineSteps)
    => /\ call.outcome = "error"
       /\ Head(call.error) = DETECTION_FAILED
       /\ <<Innermost(call.error)>> = NativeError
       /\ obs.disposeCalls = 0 => ~ api.isDisposed

\* C12: a detection call in which the backend or the model failed to load
\* ends with a MODEL_LOAD_FAILED error whose chain of causes ends in what
\* was thrown, and the call constructs each model at most once.
C12_LoadFailureIsModelLoadFailed ==
  (call.op \in DetectOps /\ call.pc = "done" /\ call.raised \cap LoadSteps /= {})
    => /\ call.outcome = "error"
       /\ Head(call.error) = MODEL_LOAD_FAILED
       /\ <<Innermost(call.error)>> = NativeError
       /\ call.faceCreates <= 1
       /\ call.landmarkCreates <= 1

\* every field that options sets has the same value in stored
HoldsOptions(stored, options) ==
  \A f \in OptionFields : IsSome(options[f]) => stored[f] = options[f]

\* C13: the options a detection call was given are merged into the persisted
\* configuration and stay there through every later call without options,
\* until a later options argument or updateOptions replaces them.
C13_PerCallOptionsSticky ==
  IsSome(obs.perCallOptions) => HoldsOptions(api.options, Get(obs.perCallOptions))

\* C13 witness: a detection call without options has begun while the
\* configuration still holds the maxFaces of an earlier call's options
C13_Witness_LaterCallWithoutOptions ==
  /\ call.op \in DetectOps /\ call.pc = "faceBackend"
  /\ call.optionsArg = None
  /\ obs.perCallOptions = Some(Opt1("maxFaces", 1))
  /\ api.options.maxFaces = Some(1)

\* C14: when updateOptions(o) has returned on an instance that was not
\* disposed, every field o sets has o's value in the persisted configuration
\* of the FaceAPI and in the stored options of both adapters.
C14_UpdateOptionsReachesAdapters ==
  (call.op = "updateOptions" /\ call.pc = "done" /\ ~ call.disposedAtStart)
    => /\ call.outcome = "ok"
       /\ HoldsOptions(api.options, Get(call.optionsArg))
       /\ HoldsOptions(fd.options, Get(call.optionsArg))
       /\ HoldsOptions(ld.options, Get(call.optionsArg))

\* C15: warmup() called on an instance that is not disposed never raises,
\* whichever of backend initialization, model construction and blank-image
\* inference fails in either adapter; it returns once both adapters are done.
C15_WarmupNeverRaises ==
  (call.op = "warmup" /\ ~ call.disposedAtStart)
    => /\ call.outcome /= "error"
       /\ call.error = <<>>
       /\ call.pc = "done" => (call.outcome = "ok" /\ call.wf = "done" /\ call.wl = "done")

\* C15 witness: warmup has returned although model construction failed in
\* the face adapter and the blank-image inference failed in the landmark adapter
C15_Witness_FailuresSwallowed ==
  /\ Returned("warmup")
  /\ {"faceCreate", "landmarkEstimate"} \subseteq call.raised

\* C16: with a clock that never runs backwards, every result of detectFaces
\* and detectFacesWithLandmarks, on the zero-face, single-face and
\* multi-face paths, has timing.total >= timing.inference >= 0.
C16_TimingConsistent ==
  \A op \in DetectOps :
    Returned(op) => /\ call.result.timing.total >= call.result.timing.inference
                    /\ call.result.timing.inference >= 0

\* C16 witness: a result with landmarks whose inference time adds a tick of
\* the face model to a tick of the landmark model
C16_Witness_BothInferencesTimed ==
  /\ Returned("detectFacesWithLandmarks")
  /\ call.path \in {"crop", "fallback", "multi"}
  /\ call.faceTiming.inference = MaxTick
  /\ call.result.timing.inference = 2 * MaxTick
  /\ call.result.timing.total = 2 * MaxTick

\* downscaleImage has returned
DownscaleReturned == Returned("downscaleImage")

\* what the claim says of downscaleImage(element, targetWidth) for one call:
\* a same-size copy and factor 1 when the element is no wider than
\* targetWidth; otherwise factor targetWidth / originalWidth in (0, 1], a
\* canvas exactly targetWidth wide and round(originalHeight * factor) high
DownscaleContract ==
  LET element == call.input
      targetWidth == call.utilArgs[1]
      canvas == call.processedInput
      \* originalHeight * targetWidth / originalWidth as a fraction n / d
      n == element.height * targetWidth.n
      d == element.width * targetWidth.d
  IN  IF element.width * targetWidth.d <= targetWidth.n
      THEN /\ canvas = MediaInput("canvas", element.width, element.height)
           /\ call.scaleFactor = One
      ELSE /\ call.scaleFactor.n * element.width * targetWidth.d
                = call.scaleFactor.d * targetWidth.n
           /\ canvas.kind = "canvas"
           /\ canvas.width * targetWidth.d = targetWidth.n
           /\ 2 * canvas.height * d <= 2 * n + d
           /\ 2 * n + d < 2 * (canvas.height + 1) * d
           /\ 0 < call.scaleFactor.n
           /\ call.scaleFactor.n <= call.scaleFactor.d

\* C17 as stated: the contract of downscaleImage for every positive targetWidth.
C17_DownscaleAnyPositiveWidth ==
  (DownscaleReturned /\ call.utilArgs[1].n > 0) => DownscaleContract

\* C17: the contract of downscaleImage for every targetWidth that is a
\* positive whole number of pixels.
C17_DownscaleWholeWidth ==
  (DownscaleReturned /\ call.utilArgs[1].n > 0 /\ call.utilArgs[1].d = 1)
    => DownscaleContract

\* C17 witness: a 4 x 2 canvas downscaled to width 1, its height 0.5
\* rounded to 1
C17_Witness_RoundedHeight ==
  /\ DownscaleReturned
  /\ call.input = MediaInput("canvas", 4, 2)
  /\ call.utilArgs = <<Int2Rat(1)>>
  /\ call.processedInput = MediaInput("canvas", 1, 1)
  /\ call.scaleFactor = Rat(1, 4)

\* the margin-expanded box of a cropFace call lies inside the canvas
ExpandedBoxInside ==
  LET box == call.utilArgs[1]
      margin == call.utilArgs[2]
      left == RSub(box.x, RMul(box.width, margin))
      top == RSub(box.y, RMul(box.height, margin))
      right == RAdd(RAdd(box.x, box.width), RMul(box.width, margin))
      bottom == RAdd(RAdd(box.y, box.height), RMul(box.height, margin))
  IN  /\ RLeq(Zero, left) /\ RLeq(Zero, top)
      /\ RLeq(right, Int2Rat(call.input.width))
      /\ RLeq(bottom, Int2Rat(call.input.height))

NoNewModelCall ==
  /\ call'.faceCreates <= call.faceCreates
  /\ call'.faceEstimates <= call.faceEstimates
  /\ call'.landmarkCreates <= call.landmarkCreates
  /\ call'.landmarkEstimates <= call.landmarkEstimates

\* C20: once dispose() has returned, the instance starts no model
\* construction and no estimateFaces, and neither adapter holds a model,
\* whatever call was in flight when dispose() ran.
C20_DisposeStopsModelUse ==
  /\ [][api.isDisposed => NoNewModelCall]_vars
  /\ [](api.isDisposed => (fd.detector = None /\ ld.detector = None))

\* a facade call that has its instance and that no dispose() has intervened
\* in since it was started
UndisturbedCall(k) ==
  /\ facade.calls[k].pc \in {"ensured", "running", "done"}
  /\ facade.calls[k].api /= None
  /\ ~ facade.calls[k].disturbed

\* C19: between two dispose() calls of the facade at most one FaceAPI is
\* constructed, and every call with no dispose() since its start holds the
\* cached instance, which is not disposed; dispose() leaves the cache empty
\* and every instance it removed disposed, so nothing is cached until a
\* later call constructs a fresh instance.
C19_OneCachedInstance ==
  /\ facade.built <= 1
  /\ facade.built = 0 => facade.cachedAPI = None
  /\ facade.cachedAPI /= None => ~ facade.instances[Get(facade.cachedAPI)].isDisposed
  /\ \A i \in 1..Len(facade.instances) :
       Some(i) /= facade.cachedAPI => facade.instances[i].isDisposed
  /\ \A k \in 1..MaxFacadeCalls :
       UndisturbedCall(k) =>
         /\ facade.calls[k].api = facade.cachedAPI
         /\ ~ facade.instances[Get(facade.calls[k].api)].isDisposed

\* C19 witness: after a dispose() two calls started together are both
\* inside the second instance, the first one disposed
C19_Witness_TwoCallsOneFreshInstance ==
  /\ facade.disposes = 1
  /\ Len(facade.instances) = 2
  /\ facade.instances[1].isDisposed
  /\ facade.cachedAPI = Some(2)
  /\ \A k \in 1..2 : facade.calls[k].pc = "running" /\ facade.calls[k].api = Some(2)
                     /\ ~ facade.calls[k].disturbed

\* a detection that has passed validateDisposed and validateInput
DetectEntered ==
  /\ call.op \in DetectOps
  /\ ~ call.disposedAtStart
  /\ validateInput(call.input) = None

\* the three conditions the claim names, for the call in flight
DownscaleConditions ==
  /\ IsSome(call.thresholdRead)
  /\ Get(call.thresholdRead) > 0
  /\ hasDocument
  /\ call.input.kind \in {"image", "video", "canvas"}

\* C21: a detection calls downscaleImage only with a persisted threshold
\* above 0, a document in the runtime and an image, video or canvas input;
\* when a condition fails or downscaleImage throws, the scale factor is 1
\* and the face adapter is given the caller's input itself.
C21_DownscaleOnlyWhenApplicable ==
  DetectEntered =>
    /\ call.downscaleCalled => DownscaleConditions
    /\ (~ DownscaleConditions \/ "downscale" \in call.raised) =>
         /\ call.scaleFactor = One
         /\ call.passedUnchanged
         /\ call.processedInput = call.input

\* C21 witness: an image in a browser with threshold 0 is given to the face
\* model as it is
C21_Witness_ThresholdZero ==
  /\ DetectEntered
  /\ hasDocument
  /\ call.input = MediaInput("image", 1280, 720)
  /\ call.thresholdRead = Some(0)
  /\ ~ call.downscaleCalled
  /\ call.pc = "faceInfer"
  /\ call.processedInput = call.input

\* the scale factor the downscale block yields for a threshold: threshold /
\* width for an element wider than a threshold that applies, 1 otherwise
ScaleUnder(threshold, input) ==
  IF /\ IsSome(threshold) /\ Get(threshold) > 0 /\ hasDocument
     /\ input.kind \in {"image", "video", "canvas"}
     /\ input.width > Get(threshold)
  THEN Rat(Get(threshold), input.width)
  ELSE One

\* the step that starts a detection with an options argument and gets past
\* validation
DetectStartsWithOptions ==
  /\ call.pc = "idle"
  /\ call'.op \in DetectOps
  /\ ~ call'.disposedAtStart
  /\ validateInput(call'.input) = None
  /\ IsSome(call'.optionsArg)

\* C29: a detection called with options computes its scale factor from the
\* downscaleWidthThreshold persisted before the call; the threshold given in
\* the options is persisted for the calls that follow, and a scoreThreshold
\* or maxFaces given with it is held by both adapters when the entry of the
\* call has run, and a face model called from that entry was built with it.
C29_ThresholdAppliesFromNextCall ==
  [][DetectStartsWithOptions =>
       LET options == Get(call'.optionsArg)
       IN  /\ "downscale" \notin call'.raised =>
                call'.scaleFactor = ScaleUnder(api.options.downscaleWidthThreshold, call'.input)
           /\ IsSome(options.downscaleWidthThreshold) =>
                api'.options.downscaleWidthThreshold = options.downscaleWidthThreshold
           /\ IsSome(options.maxFaces) =>
                /\ fd'.options.maxFaces = options.maxFaces
                /\ fd'.config.maxFaces = options.maxFaces
                /\ ld'.options.maxFaces = options.maxFaces
                /\ ld'.config.maxFaces = Get(options.maxFaces)
           /\ IsSome(options.scoreThreshold) =>
                /\ fd'.options.scoreThreshold = options.scoreThreshold
                /\ fd'.config.scoreThreshold = options.scoreThreshold
                /\ ld'.options.scoreThreshold = options.scoreThreshold
                /\ ld'.config.scoreThreshold = options.scoreThreshold
           /\ call'.pc = "faceInfer" =>
                /\ IsSome(options.maxFaces) =>
                     Get(fd'.detector).maxFaces = Get(options.maxFaces)
                /\ IsSome(options.scoreThreshold) =>
                     Get(fd'.detector).scoreThreshold = Get(options.scoreThreshold)]_vars

\* C29 witness: a 1280 wide image given with {downscaleWidthThreshold: 320,
\* maxFaces: 1} under a persisted threshold of 640 is scaled by 1/2, while
\* 320 is persisted and both adapters hold maxFaces 1
C29_Witness_OldThresholdNewCap ==
  /\ DetectEntered
  /\ call.pc = "faceBackend"
  /\ call.input = MediaInput("image", 1280, 720)
  /\ call.optionsArg = Some([Opt1("downscaleWidthThreshold", 320) EXCEPT !.maxFaces = Some(1)])
  /\ call.thresholdRead = Some(640)
  /\ call.scaleFactor = Rat(1, 2)
  /\ api.options.downscaleWidthThreshold = Some(320)
  /\ fd.config.maxFaces = Some(1)
  /\ ld.config.maxFaces = 1

\* the values options gives for scoreThreshold, maxFaces, enableTracking and
\* environment equal the ones adapter d holds
ValuesEqualCurrent(d, options) ==
  /\ \A f \in {"scoreThreshold", "maxFaces", "enableTracking"} :
       IsSome(options[f]) => d.options[f] = options[f]
  /\ IsSome(options.environment) => d.environment = Get(options.environment)

\* the step in which options are applied to a usable instance: by
\* updateOptions, or by the entry of a detection called with options
AppliesOptions ==
  /\ call.pc = "idle"
  /\ ~ api.isDisposed
  /\ IsSome(call'.optionsArg)
  /\ \/ call'.op = "updateOptions"
     \/ call'.op \in DetectOps /\ validateInput(call'.input) = None

\* C22: in a sequential run of detections and updateOptions calls a model is
\* constructed only by a detection that finds none cached, from the
\* adapter's configuration at that time; updateOptions constructs nothing,
\* keeps the cached model when the values it gives equal the current ones
\* and drops it when one of them changed; a detection that finds a cached
\* face model calls that model.
C22_ModelBuiltOnlyOnDemand ==
  [][/\ call'.faceCreates > call.faceCreates =>
          /\ call.op \in DetectOps /\ fd.detector = None
          /\ call'.tfConfig = Some(mapConfigToTfConfig(fd.config))
     /\ call'.landmarkCreates > call.landmarkCreates =>
          call.op = "detectFacesWithLandmarks" /\ ld.detector = None
     /\ (fd'.detector /= fd.detector /\ fd'.detector /= None) =>
          /\ call.pc = "faceCreate" /\ call.faceCreates = 1
          /\ fd'.detector = Some(mapConfigToTfConfig(fd.config))
     /\ (ld'.detector /= ld.detector /\ ld'.detector /= None) =>
          /\ call.pc = "landmarkCreate" /\ call.landmarkCreates = 1
          /\ ld'.detector = Some(landmarkModelConfig(ld.config))
     /\ AppliesOptions =>
          LET options == Get(call'.optionsArg)
          IN  /\ call'.op = "updateOptions" =>
                   call'.faceCreates = 0 /\ call'.landmarkCreates = 0
              /\ fd'.detector = IF ValuesEqualCurrent(fd, options) THEN fd.detector ELSE None
              /\ ld'.detector = IF ValuesEqualCurrent(ld, options) THEN ld.detector ELSE None
     /\ (call.pc = "idle" /\ call'.op \in DetectOps /\ call'.pc /= "done"
         /\ fd'.detector /= None) =>
          /\ call'.pc = "faceInfer" /\ call'.faceCreates = 0
          /\ fd'.detector = fd.detector]_vars

\* C22 witness: a detection with landmarks that found both models cached
\* has called both without constructing any
C22_Witness_BothModelsReused ==
  /\ call.op = "detectFacesWithLandmarks"
  /\ call.pc = "landmarkInfer"
  /\ call.faceCreates = 0 /\ call.landmarkCreates = 0
  /\ call.faceEstimates = 1 /\ call.landmarkEstimates = 1
  /\ fd.detector /= None /\ ld.detector /= None

\* the step in which a detection ends because a model could not be loaded
LoadFailureEnds(steps) ==
  /\ call.pc /= "done" /\ call'.pc = "done"
  /\ call'.raised \cap steps /= {}

\* C23: a detection that fails because a model's construction failed leaves
\* that adapter without a cached model and the instance usable; a detection
\* that finds an adapter without a model attempts the construction (again);
\* and a detection in which nothing fails returns a result.
C23_FailedConstructionRetried ==
  [][/\ LoadFailureEnds({"faceBackend", "faceCreate"}) =>
          fd'.detector = None /\ ~ fd'.isDisposed /\ call'.outcome = "error"
     /\ LoadFailureEnds({"landmarkBackend", "landmarkCreate"}) =>
          ld'.detector = None /\ ~ ld'.isDisposed /\ call'.outcome = "error"
     /\ (call.pc = "idle" /\ call'.op \in DetectOps /\ call'.pc /= "done"
         /\ fd'.detector = None) =>
          call'.pc = "faceBackend"
     /\ (call.pc = "faceBackend" /\ call'.pc /= "done") =>
          call'.pc = "faceCreate" /\ call'.faceCreates = call.faceCreates + 1
     /\ (call.pc = "faceInfer" /\ call'.pc /= "done" /\ ld.detector = None) =>
          call'.pc = "landmarkBackend"
     /\ (call.pc = "landmarkBackend" /\ call'.pc /= "done") =>
          call'.pc = "landmarkCreate" /\ call'.landmarkCreates = call.landmarkCreates + 1
     /\ (call.pc /= "done" /\ call'.pc = "done" /\ call'.op \in DetectOps
         /\ call'.raised = {}) =>
          call'.outcome = "ok"]_vars

\* C23 witness: a detection with landmarks that found the face model cached
\* and the landmark model missing, which here is the case only after a call
\* whose landmark model failed to load, has constructed the landmark model
\* and returned a face with landmarks
C23_Witness_RetrySucceeded ==
  /\ Returned("detectFacesWithLandmarks")
  /\ call.faceCreates = 0
  /\ call.landmarkCreates = 1
  /\ ld.detector /= None
  /\ Len(call.result.faces) = 1

\* the positions of a detection from the start of the face model's inference
\* to the end of the landmark model's
InferencePhase == {"faceInfer", "landmarkBackend", "landmarkCreate", "landmarkInfer"}

\* C24: from the start of a detection's inference on, the configuration of
\* the FaceAPI and of both adapters and every cached model stay as they are,
\* and a detection that ends because estimateFaces threw, in the face phase
\* or in the landmark phase, ends in an error on an instance that is not
\* disposed.
C24_InferenceFailureLeavesState ==
  [][call.pc \in InferencePhase =>
       /\ api' = api
       /\ fd' = fd
       /\ ld'.options = ld.options /\ ld'.config = ld.config
       /\ ld'.isDisposed = ld.isDisposed
       /\ ld.detector /= None => ld'.detector = ld.detector
       /\ (call'.pc = "done" /\ call'.raised \cap {"faceEstimate", "landmarkEstimate"} /= {}) =>
            /\ call'.outcome = "error"
            /\ ~ api'.isDisposed /\ ~ fd'.isDisposed /\ ~ ld'.isDisposed
            /\ fd'.detector /= None
            /\ ld' = ld]_vars

\* C24 witness: a detection with landmarks has failed in the landmark model's
\* estimateFaces, after the face model found a face, and both models are
\* still cached
C24_Witness_LandmarkInferenceFailed ==
  /\ call.pc = "done" /\ call.op = "detectFacesWithLandmarks"
  /\ call.outcome = "error"
  /\ "landmarkEstimate" \in call.raised
  /\ call.faceReturned /\ Len(call.rawFaces) >= 1
  /\ ~ api.isDisposed
  /\ fd.detector /= None /\ ld.detector /= None

\* the steps at which a step of an adapter's warmup failed
WarmupFailures(c) ==
  c.raised \cap {"faceBackend", "faceCreate", "faceEstimate",
                 "landmarkBackend", "landmarkCreate", "landmarkEstimate"}

\* C25: warmup() on an instance that is not disposed starts the warmup of
\* both adapters in its first step, before it waits; a step of one adapter's
\* warmup, failing or not, leaves the other adapter's warmup where it was and
\* the call waiting; and warmup() returns only in a step taken when both
\* adapters' warmup have settled.
C25_WarmupRunsBothAdapters ==
  [][/\ (call.pc = "idle" /\ call'.op = "warmup" /\ ~ api.isDisposed) =>
          call'.pc = "warmup" /\ call'.wf /= "none" /\ call'.wl /= "none"
     /\ (call.pc = "warmup" /\ call'.wf /= call.wf) =>
          call'.wl = call.wl /\ call'.pc = "warmup"
     /\ (call.pc = "warmup" /\ call'.wl /= call.wl) =>
          call'.wf = call.wf /\ call'.pc = "warmup"
     /\ (call.pc = "warmup" /\ call'.pc /= "warmup") =>
          /\ call.wf = "done" /\ call.wl = "done"
          /\ call'.pc = "done" /\ call'.outcome = "ok"]_vars

\* C25 witness: warmup() has returned after the face adapter's model failed
\* to load while the landmark adapter built and cached its model
C25_Witness_OneFailedOtherRan ==
  /\ call.pc = "done" /\ call.op = "warmup" /\ call.outcome = "ok"
  /\ WarmupFailures(call) = {"faceCreate"}
  /\ call.wf = "done" /\ call.wl = "done"
  /\ fd.detector = None
  /\ call.landmarkCreates = 1 /\ ld.detector /= None

\* the places mapDetectedFaces looks for a score in, in the order the claim
\* gives: score, confidence, the first keypoint's score, probability[0], the
\* mean of the positive keypoint scores
ScoreSources(face) ==
  LET positives == PositiveScores(face.keypoints)
  IN  <<face.score,
        face.confidence,
        IF Len(face.keypoints) > 0 THEN face.keypoints[1] ELSE None,
        face.probability,
        IF Len(positives) > 0
        THEN Some(RDiv(RSum(positives), Int2Rat(Len(positives))))
        ELSE None>>

\* the first positive number of a list of optional numbers, if there is one
RECURSIVE FirstPositive(_)
FirstPositive(sources) ==
  IF sources = <<>> THEN None
  ELSE IF IsPositive(Head(sources)) THEN Head(sources)
  ELSE FirstPositive(Tail(sources))

\* C26: the score mapDetectedFaces gives a raw detection is the first
\* positive number among its score sources; when there is none and the box
\* is valid the score is 0.95; and it is 0 only when the box is not valid.
C26_ScoreFallbackOrder ==
  (call.op = "mapDetectedFaces" /\ call.pc = "done") =>
    \A i \in 1..Len(call.rawFaces) :
      LET raw == call.rawFaces[i]
          score == call.result.faces[i].detection.score
          first == FirstPositive(ScoreSources(raw))
      IN  /\ IsSome(first) => score = Get(first)
          /\ (first = None /\ hasValidBox(raw.box)) =>
               score = Rat(95, 100) /\ score /= Zero
          /\ score = Zero => ~ hasValidBox(raw.box)

\* C26 witness: a raw detection with score 0, no confidence, a first keypoint
\* of score 0 and probability[0] = 0, whose later keypoints score 0.2 and
\* 0.4, is given their mean 0.3
C26_Witness_MeanOfKeypointScores ==
  /\ call.op = "mapDetectedFaces" /\ call.pc = "done"
  /\ Len(call.rawFaces) = 1
  /\ call.rawFaces[1].score = Some(Zero)
  /\ call.rawFaces[1].confidence = None
  /\ call.rawFaces[1].probability = Some(Zero)
  /\ Len(call.rawFaces[1].keypoints) = 4
  /\ call.result.faces[1].detection.score = Rat(3, 10)

\* an initTensorflowBackend call has settled
BackendCallDone == call.op = "initTensorflowBackend" /\ call.pc = "done"

\* the preferred backend of the environment failed to load or to activate
PreferredFailed(before, environment, ext) ==
  IF environment = "node" THEN ~ loadBackend(before, "node", ext.requireNode).ok
  ELSE IF environment = "react-native" THEN ext.reactNative /= "ready"
  ELSE ~ loadBackend(before, "webgl", ext.importWebgl).ok \/ ext.setWebgl /= "true"

\* the CPU backend loads and activates
CpuSucceeds(before, ext) ==
  loadBackend(before, "cpu", ext.importCpu).ok /\ ext.setCpu = "true"

\* C27 as stated: initTensorflowBackend raises an error only when the
\* preferred backend and the CPU fallback both fail; when the preferred
\* backend fails to load or activate and CPU succeeds it completes with the
\* CPU backend active; when a backend is already active it changes nothing.
C27_FallsBackToCpu ==
  BackendCallDone =>
    LET environment == call.utilArgs[1]
        ext == call.utilArgs[2]
        before == call.utilArgs[3]
    IN  IF IsSome(before.backend)
        THEN obs.tf = before /\ call.outcome = "ok"
        ELSE /\ call.outcome = "error" =>
                  /\ PreferredFailed(before, environment, ext)
                  /\ obs.tf.backend /= Some("cpu")
             /\ (PreferredFailed(before, environment, ext) /\ CpuSucceeds(before, ext)) =>
                  call.outcome = "ok" /\ obs.tf.backend = Some("cpu")

\* C28 as stated: in every state a model cached by an adapter was built from
\* the adapter's current configuration, so that no inference runs on a model
\* of a configuration that updateOptions has superseded.
C28_CachedModelIsCurrent ==
  /\ IsSome(fd.detector) => Get(fd.detector) = mapConfigToTfConfig(fd.config)
  /\ IsSome(ld.detector) => Get(ld.detector) = landmarkModelConfig(ld.config)

\* C30 as stated: the face adapter and the landmark adapter use the same
\* effective face cap under every configuration, and a detection with
\* landmarks that took the single-face path ran under a configured maxFaces
\* of exactly 1.
C30_SameEffectiveCap ==
  /\ (~ api.isDisposed) =>
       ld.config.maxFaces = mapConfigToTfConfig(fd.config).maxFaces
  /\ (Returned("detectFacesWithLandmarks") /\ call.path \in {"crop", "fallback"}) =>
       api.options.maxFaces = Some(1)

=============================================================================
